---- MODULE Spec2Model ----
(***************************************************************************)
(* hegel-pm: the discovery-and-caching data layer.                         *)
(*                                                                         *)
(*  - the durable cache (src/src/discovery/cache.rs): the sharded format   *)
(*    (index.bin + one <safe-name>.bin per project) and the snapshot       *)
(*    format (cache.json), both written as temp file + rename;             *)
(*  - the discovery engine (src/src/discovery/engine.rs);                  *)
(*  - the background snapshot writer (src/src/discovery/cache_manager.rs); *)
(*  - the request worker and its response cache                            *)
(*    (src/src/data_layer/worker.rs, src/src/data_layer/cache.rs).         *)
(*                                                                         *)
(* A file is a record [st, v]: st is "absent", "partial" (created or       *)
(* truncated by fs::write, bytes not yet all written), "garbage" (bytes    *)
(* that do not decode) or "full" (the complete bytes of one serialization, *)
(* v the serialized value).  fs::write is two steps (open with             *)
(* create+truncate, then write); fs::rename is atomic.                     *)
(***************************************************************************)
EXTENDS Integers, Sequences, FiniteSets, TLC

(***************************************************************************)
(* Bounds of the model.                                                    *)
(***************************************************************************)
\* longest project list handed to a save
MaxProjects == 2
\* top-level cache operations in one behaviour
MaxOps == 2
\* queue_save calls in one behaviour
MaxQueued == 2
\* requests sent to the worker in one behaviour
MaxReqs == 3
\* changes of a project's metrics files in one behaviour
MaxChanges == 1
\* deepest directory below (and including) a scanned root
MaxDirDepth == 3
\* reply receivers dropped by their callers in one behaviour
MaxDrops == 1
\* symbolic links in a scanned tree
MaxLinks == 1
\* calls made on a ResponseCache in one behaviour
MaxCalls == 4
\* configured root directories of one scan
MaxRoots == 2

(***************************************************************************)
(* The world: project roots on disk.  Names are sequences of characters.   *)
(***************************************************************************)
Paths == {1, 2, 3}

None == "none"

\* directory name of each project root (discover.rs: file_name of the path)
NameOf(p) ==
  CASE p = 1 -> <<"a", ".", "b">>
    [] p = 2 -> <<"a", "_", "b">>
    [] OTHER -> <<"c">>

\* what load_state finds in the project's .hegel directory
StateFileOf(p) ==
  CASE p = 1 -> "valid"
    [] p = 2 -> "missing"
    [] OTHER -> "corrupt"

\* newest modification time inside .hegel
LastActivityOf(p) == p

IsAlphanumeric(c) == c \in {"a", "b", "c"}

\* name.replace(|c| !c.is_alphanumeric() && c != '-' && c != '_', "_")
Sanitize(name) ==
  [k \in 1..Len(name) |->
     IF ~IsAlphanumeric(name[k]) /\ name[k] # "-" /\ name[k] # "_"
     THEN "_" ELSE name[k]]

\* DiscoveredProject as built by discover_projects for root p
ScanRecordKeepsState(p) ==
  [name  |-> NameOf(p),
   path  |-> p,
   ws    |-> IF StateFileOf(p) # "missing" THEN "ws" ELSE None,
   stats |-> None,
   err   |-> IF StateFileOf(p) = "corrupt" THEN "err" ELSE None,
   la    |-> LastActivityOf(p)]

ScanRecord(p) ==
  [name  |-> NameOf(p),
   path  |-> p,
   ws    |-> IF StateFileOf(p) = "valid" THEN "ws" ELSE None,
   stats |-> None,
   err   |-> IF StateFileOf(p) = "corrupt" THEN "err" ELSE None,
   la    |-> LastActivityOf(p)]

\* records a caller may hand to a save: scan records, and a record whose
\* statistics were loaded by the server
InputRecords ==
  {IF p = 2 THEN [ScanRecord(p) EXCEPT !.stats = "st"] ELSE ScanRecord(p) : p \in Paths}

RECURSIVE SeqsUpTo(_, _)
SeqsUpTo(S, n) ==
  IF n = 0 THEN {<<>>}
  ELSE LET shorter == SeqsUpTo(S, n - 1)
       IN shorter \cup {Append(s, x) : s \in {t \in shorter : Len(t) = n - 1}, x \in S}

DistinctPaths(s) == \A a, b \in 1..Len(s) : a # b => s[a].path # s[b].path

InputLists == {s \in SeqsUpTo(InputRecords, MaxProjects) : DistinctPaths(s)}

SafeNames == {Sanitize(NameOf(p)) : p \in Paths}

(***************************************************************************)
(* File contents.                                                          *)
(***************************************************************************)
Absent == [st |-> "absent", v |-> <<>>]
Partial == [st |-> "partial", v |-> <<>>]
Garbage == [st |-> "garbage", v |-> <<>>]
Full(val) == [st |-> "full", v |-> val]

\* ProjectIndexEntry built from a project (save_binary_cache)
IndexEntry(p) == [name |-> p.name, path |-> p.path, la |-> p.la]

IndexOf(projects) == [k \in 1..Len(projects) |-> IndexEntry(projects[k])]

\* the copy write_project serializes: heavy fields cleared
StripHeavy(p) == [p EXCEPT !.stats = None, !.ws = None]

NamesOf(s) == [k \in 1..Len(s) |-> s[k].name]

NameSet(s) == {s[k].name : k \in 1..Len(s)}

VARIABLES
  markers,      \* project roots that currently hold a .hegel directory
  index,        \* cache/index.bin
  indexTmp,     \* cache/index.bin.tmp
  recs,         \* cache/<safe>.bin, by safe name
  recTmp,       \* cache/<safe>.bin.tmp, by safe name
  snap,         \* cache.json
  snapTmp,      \* cache.json.tmp
  op,           \* the operation the cache process runs, or ran last
  pc,           \* its position ("idle": not running)
  arg,          \* the project list being saved
  i,            \* save_binary_cache's loop position
  ret,          \* result of the last finished operation
  loaded,       \* result of the last load_binary_cache
  oplog,        \* which files the running operation has tried to modify, the last,
                \* and the records whose write_project failed
  committed,    \* index and record files as the last Ok save_binary_cache left them
  interrupted,  \* a save was cut (crash) before its index rename
  ioFailed,     \* some file operation of the running operation failed
  nops,         \* operations started
  fd,           \* per process: the snapshot file its open descriptor refers to
  snapLoaded,   \* result of the last load_cache
  mq,           \* CacheManager: project lists queued by queue_save
  pending,      \* cache_worker: the pending save
  mpc,          \* cache_worker: position
  marg,         \* cache_worker: the list save_cache is writing
  nqueued,      \* queue_save calls made
  mlog,         \* CacheManager: the lists queued, discarded, passed to save_cache, saved
  table,        \* WorkerPool: the live project table (projects)
  cache,        \* WorkerPool: the ResponseCache, key -> serialized reply
  reqs,         \* every request sent on the channel, in order
  handled,      \* how many of them run() has dequeued
  tasks,        \* the spawned metrics loads, by request
  replies,      \* what each reply channel received, by request
  disk,         \* the metrics files under each root's .hegel directory
  nchanges,     \* changes made to the metrics files
  parsed,       \* the parses that have returned: name and the content read
  access,       \* who touched the table or the metrics files, for which request
  walk,         \* one call of find_hegel_directories: its arguments and what it returned
  calls         \* the calls made on a ResponseCache by its clients, with what get returned

cacheVars == <<markers, index, indexTmp, recs, recTmp, snap, snapTmp, op, pc, arg, i,
               ret, loaded, oplog, committed, interrupted, ioFailed, nops, fd,
               snapLoaded>>

mgrVars == <<mq, pending, mpc, marg, nqueued, mlog>>

workerVars == <<table, cache, reqs, handled, tasks, replies, disk, nchanges, parsed, access,
                calls>>

vars == <<cacheVars, mgrVars, workerVars, walk>>

NoResult == [tag |-> "none", v |-> <<>>]
Ok(val) == [tag |-> "ok", v |-> val]
NoCache == [tag |-> "nocache", v |-> <<>>]
Err(what) == [tag |-> "err", v |-> <<what>>]

NoCommit == [valid |-> FALSE, index |-> <<>>, recs |-> [s \in SafeNames |-> Absent]]

InitCache ==
  /\ markers = Paths
  /\ index = Absent
  /\ indexTmp = Absent
  /\ recs = [s \in SafeNames |-> Absent]
  /\ recTmp = [s \in SafeNames |-> Absent]
  /\ snap = Absent
  /\ snapTmp = Absent
  /\ op = "none"
  /\ pc = "idle"
  /\ arg = <<>>
  /\ i = 0
  /\ ret = NoResult
  /\ loaded = NoResult
  /\ oplog = [rec |-> {}, failed |-> {}, idx |-> FALSE, snap |-> FALSE, last |-> None]
  /\ committed = NoCommit
  /\ interrupted = FALSE
  /\ ioFailed = FALSE
  /\ nops = 0
  /\ fd = [p \in {"engine", "manager"} |-> None]
  /\ snapLoaded = NoResult
  /\ mq = <<>>
  /\ pending = [some |-> FALSE, v |-> <<>>]
  /\ mpc = "wait"
  /\ marg = <<>>
  /\ nqueued = 0
  /\ mlog = [queued |-> <<>>, discarded |-> <<>>, saves |-> <<>>, written |-> <<>>]

(***************************************************************************)
(* save_binary_cache (cache.rs 180-214), one action per file system call.  *)
(* write_project and write_index are fs::write to the temp name (open with *)
(* create+truncate, then write) followed by fs::rename; any of the calls   *)
(* may fail.  A failed write_project is logged and skipped, a failed       *)
(* write_index is returned.  A failure is taken at the first call (the     *)
(* open): one at the later write or rename has the same result for the     *)
(* caller and differs only in the temp file it leaves, which no operation  *)
(* reads before truncating it and which is the state Crash leaves.         *)
(***************************************************************************)
SaveIdle == <<snap, snapTmp, markers, fd, snapLoaded, mgrVars, workerVars, walk>>

NoLog == [rec |-> {}, failed |-> {}, idx |-> FALSE, snap |-> FALSE, last |-> None]

\* the log after a modification of record k's files (kind "rec"), of the index
\* files (kind "idx") or of the snapshot files (kind "snap") was attempted
Log(kind, k) ==
  [rec  |-> IF kind = "rec" THEN oplog.rec \cup {k} ELSE oplog.rec,
   failed |-> oplog.failed,
   idx  |-> oplog.idx \/ kind = "idx",
   snap |-> oplog.snap \/ kind = "snap",
   last |-> kind]

\* the for loop over projects: the record after position k, or the index
AfterRecordSkipsRest(k, n) == [pc |-> "idx_open", i |-> k]

AfterRecord(k, n) ==
  IF k < n THEN [pc |-> "rec_open", i |-> k + 1] ELSE [pc |-> "idx_open", i |-> k]

\* where write_project puts the bytes before the rename
RecordTempInPlace(project) == "final"

RecordTemp(project) == "temp"

\* save_binary_cache(projects, config) is called directly
StartSaveBinary ==
  /\ pc = "idle"
  /\ nops < MaxOps
  /\ \E projects \in InputLists :
       /\ arg' = projects
       /\ op' = "save_binary"
       /\ pc' = "sb_mkdir"
  /\ i' = 0
  /\ oplog' = NoLog
  /\ ioFailed' = FALSE
  /\ interrupted' = FALSE
  /\ loaded' = NoResult
  /\ ret' = NoResult
  /\ nops' = nops + 1
  /\ UNCHANGED <<index, indexTmp, recs, recTmp, committed, SaveIdle>>

\* the operation ends with result r
Return(r) ==
  /\ pc' = "idle"
  /\ ret' = r
  /\ UNCHANGED op

\* fs::create_dir_all(&cache_dir)?
SbMkdir ==
  /\ pc = "sb_mkdir"
  /\ \E ok \in BOOLEAN :
       IF ok
       THEN /\ pc' = AfterRecord(0, Len(arg)).pc
            /\ i' = AfterRecord(0, Len(arg)).i
            /\ UNCHANGED <<op, ret, ioFailed>>
       ELSE /\ Return(Err("mkdir"))
            /\ ioFailed' = TRUE
            /\ UNCHANGED i
  /\ UNCHANGED <<index, indexTmp, recs, recTmp, arg, loaded, oplog, committed,
                 interrupted, nops, SaveIdle>>

SafeOfFirst(k) == Sanitize(arg[1].name)

SafeOf(k) == Sanitize(arg[k].name)

SkipRecord ==
  /\ pc' = AfterRecord(i, Len(arg)).pc
  /\ i' = AfterRecord(i, Len(arg)).i
  /\ ioFailed' = TRUE

\* write_project: fs::write(&temp_path, ..) opens the temp file (create, truncate)
RecOpen ==
  /\ pc = "rec_open"
  /\ \E ok \in BOOLEAN :
       IF ok
       THEN /\ IF RecordTemp(arg[i]) = "temp"
               THEN /\ recTmp' = [recTmp EXCEPT ![SafeOf(i)] = Partial]
                    /\ UNCHANGED recs
               ELSE /\ recs' = [recs EXCEPT ![SafeOf(i)] = Partial]
                    /\ UNCHANGED recTmp
            /\ pc' = "rec_write"
            /\ oplog' = Log("rec", i)
            /\ UNCHANGED <<i, ioFailed>>
       ELSE /\ SkipRecord
            /\ oplog' = [Log("rec", i) EXCEPT !.failed = @ \cup {i}]
            /\ UNCHANGED <<recs, recTmp>>
  /\ UNCHANGED <<index, indexTmp, op, arg, ret, loaded, committed, interrupted, nops,
                 SaveIdle>>

\* write_project: fs::write writes the serialized, stripped copy
RecWrite ==
  /\ pc = "rec_write"
  /\ oplog' = Log("rec", i)
  /\ IF RecordTemp(arg[i]) = "temp"
     THEN /\ recTmp' = [recTmp EXCEPT ![SafeOf(i)] = Full(<<StripHeavy(arg[i])>>)]
          /\ UNCHANGED recs
     ELSE /\ recs' = [recs EXCEPT ![SafeOf(i)] = Full(<<StripHeavy(arg[i])>>)]
          /\ UNCHANGED recTmp
  /\ pc' = "rec_rename"
  /\ UNCHANGED <<index, indexTmp, op, arg, i, ret, loaded, committed, interrupted,
                 ioFailed, nops, SaveIdle>>

\* write_project: fs::rename(&temp_path, &project_path)
RecRename ==
  /\ pc = "rec_rename"
  /\ oplog' = Log("rec", i)
  /\ IF RecordTemp(arg[i]) = "temp"
     THEN /\ recs' = [recs EXCEPT ![SafeOf(i)] = recTmp[SafeOf(i)]]
          /\ recTmp' = [recTmp EXCEPT ![SafeOf(i)] = Absent]
     ELSE UNCHANGED <<recs, recTmp>>
  /\ pc' = AfterRecord(i, Len(arg)).pc
  /\ i' = AfterRecord(i, Len(arg)).i
  /\ UNCHANGED <<index, indexTmp, op, arg, ret, loaded, committed, interrupted,
                 ioFailed, nops, SaveIdle>>

\* write_index: fs::write(&temp_path, ..) opens index.bin.tmp
IdxOpen ==
  /\ pc = "idx_open"
  /\ op \in {"save_binary", "scan", "migrate"}
  /\ oplog' = Log("idx", 0)
  /\ \E ok \in BOOLEAN :
       IF ok
       THEN /\ indexTmp' = Partial
            /\ pc' = "idx_write"
            /\ UNCHANGED <<op, ret, ioFailed>>
       ELSE /\ Return(Err("index"))
            /\ ioFailed' = TRUE
            /\ UNCHANGED indexTmp
  /\ UNCHANGED <<index, recs, recTmp, arg, i, loaded, committed, interrupted, nops,
                 SaveIdle>>

\* write_index: fs::write writes the serialized index
IdxWrite ==
  /\ pc = "idx_write"
  /\ op \in {"save_binary", "scan", "migrate"}
  /\ oplog' = Log("idx", 0)
  /\ indexTmp' = Full(IndexOf(arg))
  /\ pc' = "idx_rename"
  /\ UNCHANGED <<index, recs, recTmp, op, arg, i, ret, loaded, committed, interrupted,
                 ioFailed, nops, SaveIdle>>

\* what follows Ok(()) of save_binary_cache in the running operation
AfterSaveBinaryFailsOnSkipped ==
  CASE ioFailed -> [pc |-> "idle", ret |-> Err("project")]
    [] op = "save_binary" -> [pc |-> "idle", ret |-> Ok(<<>>)]
    [] op = "migrate" -> [pc |-> "idle", ret |-> Ok(arg)]
    [] OTHER -> [pc |-> "snap_open", ret |-> ret]

AfterSaveBinarySkipsSnapshot ==
  IF op = "save_binary" THEN [pc |-> "idle", ret |-> Ok(<<>>)]
  ELSE [pc |-> "idle", ret |-> Ok(arg)]

AfterSaveBinary ==
  CASE op = "save_binary" -> [pc |-> "idle", ret |-> Ok(<<>>)]
    [] op = "migrate" -> [pc |-> "idle", ret |-> Ok(arg)]
    [] OTHER -> [pc |-> "snap_open", ret |-> ret]

\* write_index: fs::rename(&temp_path, &index_path); then save_binary_cache returns
IdxRename ==
  /\ pc = "idx_rename"
  /\ op \in {"save_binary", "scan", "migrate"}
  /\ oplog' = Log("idx", 0)
  /\ index' = indexTmp
  /\ indexTmp' = Absent
  /\ committed' = [valid |-> TRUE, index |-> indexTmp.v, recs |-> recs]
  /\ pc' = AfterSaveBinary.pc
  /\ ret' = AfterSaveBinary.ret
  /\ UNCHANGED <<op, recs, recTmp, arg, i, loaded, interrupted, ioFailed, nops, SaveIdle>>

SaveBinarySteps ==
  \/ SbMkdir
  \/ RecOpen
  \/ RecWrite
  \/ RecRename
  \/ IdxOpen
  \/ IdxWrite
  \/ IdxRename

(***************************************************************************)
(* load_binary_cache (cache.rs 219-244) with read_index and read_project.  *)
(***************************************************************************)
\* serde_json::from_slice on the bytes of a file
DecodesAnyPresent(file) == file.st # "absent"

Decodes(file) == file.st = "full"

\* read_index: Ok(None) when index.bin is absent, Err when it does not decode
ReadIndex(idx) ==
  CASE idx.st = "absent" -> NoCache
    [] Decodes(idx) -> Ok(idx.v)
    [] OTHER -> Err("index")

\* read_project: Ok(None) when <safe>.bin is absent, Err when it does not decode
ReadProject(name, files) ==
  LET file == files[Sanitize(name)]
  IN CASE file.st = "absent" -> NoCache
       [] Decodes(file) -> Ok(file.v[1])
       [] OTHER -> Err("project")

\* the for loop of load_binary_cache from entry k on
RECURSIVE LoadEntriesStopAtMissing(_, _, _, _)
LoadEntriesStopAtMissing(entries, files, k, acc) ==
  IF k > Len(entries) THEN acc
  ELSE LET r == ReadProject(entries[k].name, files)
       IN IF r.tag = "ok"
          THEN LoadEntriesStopAtMissing(entries, files, k + 1, Append(acc, r.v))
          ELSE acc

RECURSIVE LoadEntries(_, _, _, _)
LoadEntries(entries, files, k, acc) ==
  IF k > Len(entries) THEN acc
  ELSE LET r == ReadProject(entries[k].name, files)
       IN LoadEntries(entries, files, k + 1,
                      IF r.tag = "ok" THEN Append(acc, r.v) ELSE acc)

LoadBinaryCache(idx, files) ==
  LET r == ReadIndex(idx)
  IN IF r.tag = "ok" THEN Ok(LoadEntries(r.v, files, 1, <<>>)) ELSE r

\* load_binary_cache(config) is called
LoadBinary ==
  /\ pc = "idle"
  /\ loaded = NoResult
  /\ loaded' = LoadBinaryCache(index, recs)
  /\ UNCHANGED <<index, indexTmp, recs, recTmp, op, pc, arg, i, ret, oplog, committed,
                 interrupted, ioFailed, nops, SaveIdle>>

(***************************************************************************)
(* The environment: the process dies in the middle of an operation; a      *)
(* record file is deleted or damaged from outside.                         *)
(***************************************************************************)
BeforeIndexRename ==
  pc \in {"sb_mkdir", "rec_open", "rec_write", "rec_rename", "idx_open", "idx_write",
          "idx_rename"}

Crash ==
  /\ pc # "idle"
  /\ interrupted' = BeforeIndexRename
  /\ pc' = "idle"
  /\ ret' = NoResult
  /\ fd' = [fd EXCEPT !["engine"] = None]
  /\ UNCHANGED <<op, index, indexTmp, recs, recTmp, arg, i, loaded, oplog, committed,
                 ioFailed, nops, snap, snapTmp, markers, snapLoaded, mgrVars, workerVars, walk>>

Tamper ==
  /\ pc = "idle"
  /\ index.st = "full"
  /\ \E s \in SafeNames, how \in {Absent, Garbage} :
       /\ recs[s].st = "full"
       /\ recs' = [recs EXCEPT ![s] = how]
  /\ loaded' = NoResult
  /\ interrupted' = FALSE
  /\ UNCHANGED <<index, indexTmp, recTmp, op, pc, arg, i, ret, oplog, committed,
                 ioFailed, nops, SaveIdle>>

(***************************************************************************)
(* save_cache and load_cache (cache.rs 28-70): the snapshot file.          *)
(* Both the engine and the CacheManager's cache_worker write it through    *)
(* the same temp name cache.json.tmp.  fd[p] is where process p's open     *)
(* descriptor points: "tmp" or "final" (the file now under that name; a    *)
(* rename moves the file, and the descriptor with it), "unlinked" (the     *)
(* file was replaced by a rename) or None.                                 *)
(***************************************************************************)
\* fs::write opens temp_file: create, or truncate the file already there
OpenSnapTmp(p) ==
  /\ snapTmp' = Partial
  /\ fd' = [fd EXCEPT ![p] = "tmp"]
  /\ UNCHANGED snap

\* bytes written from offset 0 over what the file holds: over another
\* writer's complete bytes this leaves the new bytes, or (the old ones being
\* longer) the new bytes followed by the old tail
Overwrite(file, data) ==
  IF file.st = "full" /\ file.v # data THEN {Full(data), Garbage} ELSE {Full(data)}

\* fs::write writes the bytes through p's descriptor and closes it
WriteSnapFd(p, data) ==
  /\ CASE fd[p] = "tmp" -> (snapTmp' \in Overwrite(snapTmp, data) /\ UNCHANGED snap)
       [] fd[p] = "final" -> (snap' \in Overwrite(snap, data) /\ UNCHANGED snapTmp)
       [] OTHER -> UNCHANGED <<snap, snapTmp>>
  /\ fd' = [fd EXCEPT ![p] = None]

\* fs::rename(temp_file, cache_location), when temp_file exists
RenameSnapTmp ==
  /\ snap' = snapTmp
  /\ snapTmp' = Absent
  /\ fd' = [q \in DOMAIN fd |->
              CASE fd[q] = "tmp" -> "final"
                [] fd[q] = "final" -> "unlinked"
                [] OTHER -> fd[q]]

\* load_cache: Ok(None) when the file is absent, Err when it does not parse
LoadCache(file) ==
  CASE file.st = "absent" -> NoCache
    [] Decodes(file) -> Ok(file.v)
    [] OTHER -> Err("snapshot")

\* load_cache(cache_location) is called by some reader
LoadSnapshot ==
  /\ snapLoaded' = LoadCache(snap)
  /\ UNCHANGED <<markers, index, indexTmp, recs, recTmp, snap, snapTmp, op, pc, arg, i,
                 ret, loaded, oplog, committed, interrupted, ioFailed, nops, fd, mgrVars,
                 workerVars, walk>>

EngineIdle == <<markers, index, indexTmp, recs, recTmp, loaded, committed, interrupted,
                snapLoaded, mgrVars, workerVars, walk, nops>>

\* save_cache in the engine: create_dir_all, then fs::write opens the temp file
SnapOpen ==
  /\ pc = "snap_open"
  /\ oplog' = Log("snap", 0)
  /\ \E ok \in BOOLEAN :
       IF ok
       THEN /\ OpenSnapTmp("engine")
            /\ pc' = "snap_write"
            /\ UNCHANGED <<op, ret, ioFailed>>
       ELSE /\ Return(Err("snapshot"))
            /\ ioFailed' = TRUE
            /\ UNCHANGED <<snap, snapTmp, fd>>
  /\ UNCHANGED <<arg, i, EngineIdle>>

\* save_cache in the engine: fs::write writes the serialized list
SnapWrite ==
  /\ pc = "snap_write"
  /\ oplog' = Log("snap", 0)
  /\ WriteSnapFd("engine", arg)
  /\ pc' = "snap_rename"
  /\ UNCHANGED <<op, arg, i, ret, ioFailed, EngineIdle>>

\* save_cache in the engine: fs::rename; scan_and_cache then returns Ok(projects)
SnapRename ==
  /\ pc = "snap_rename"
  /\ oplog' = Log("snap", 0)
  /\ IF snapTmp.st # "absent"
     THEN /\ RenameSnapTmp
          /\ Return(Ok(arg))
          /\ UNCHANGED ioFailed
     ELSE /\ Return(Err("snapshot"))
          /\ ioFailed' = TRUE
          /\ UNCHANGED <<snap, snapTmp, fd>>
  /\ UNCHANGED <<arg, i, EngineIdle>>

SnapSteps ==
  \/ SnapOpen
  \/ SnapWrite
  \/ SnapRename

(***************************************************************************)
(* discover_projects (discover.rs 7-51) and the engine (engine.rs 23-70).  *)
(***************************************************************************)
\* all_projects.sort(): stable, most recent last_activity first
RECURSIVE InsertByActivity(_, _)
InsertByActivity(sorted, r) ==
  IF sorted = <<>> THEN <<r>>
  ELSE IF Head(sorted).la >= r.la
       THEN <<Head(sorted)>> \o InsertByActivity(Tail(sorted), r)
       ELSE <<r>> \o sorted

RECURSIVE SortByActivity(_)
SortByActivity(s) ==
  IF s = <<>> THEN <<>>
  ELSE InsertByActivity(SortByActivity(SubSeq(s, 1, Len(s) - 1)), s[Len(s)])

\* the records in the order the walk finds the markers
RECURSIVE WalkOrder(_)
WalkOrder(found) ==
  IF found = {} THEN <<>>
  ELSE LET p == CHOOSE x \in found : \A y \in found : x <= y
       IN <<ScanRecord(p)>> \o WalkOrder(found \ {p})

DiscoverProjects(found) == SortByActivity(WalkOrder(found))

\* what get_projects does after reading the caches
EngineRouteRescans(force, bin, json) ==
  [op |-> "scan", pc |-> "discover", arg |-> <<>>, ret |-> NoResult]

EngineRoute(force, bin, json) ==
  CASE force -> [op |-> "scan", pc |-> "discover", arg |-> <<>>, ret |-> NoResult]
    [] bin.tag = "ok" -> [op |-> "cached", pc |-> "idle", arg |-> <<>>, ret |-> Ok(bin.v)]
    [] bin.tag = "err" -> [op |-> "cached", pc |-> "idle", arg |-> <<>>, ret |-> bin]
    [] json.tag = "ok" ->
         [op |-> "migrate", pc |-> "sb_mkdir", arg |-> json.v, ret |-> NoResult]
    [] json.tag = "err" -> [op |-> "cached", pc |-> "idle", arg |-> <<>>, ret |-> json]
    [] OTHER -> [op |-> "scan", pc |-> "discover", arg |-> <<>>, ret |-> NoResult]

\* DiscoveryEngine::get_projects(force_refresh): the cache reads and the route taken
StartGetProjects ==
  /\ pc = "idle"
  /\ nops < MaxOps
  /\ \E force \in BOOLEAN :
       LET r == EngineRoute(force, LoadBinaryCache(index, recs), LoadCache(snap))
       IN /\ op' = r.op
          /\ pc' = r.pc
          /\ arg' = r.arg
          /\ ret' = r.ret
  /\ i' = 0
  /\ oplog' = NoLog
  /\ ioFailed' = FALSE
  /\ interrupted' = FALSE
  /\ loaded' = NoResult
  /\ nops' = nops + 1
  /\ UNCHANGED <<index, indexTmp, recs, recTmp, committed, SaveIdle>>

\* scan_and_cache: discover_projects(&self.config)?
Discover ==
  /\ pc = "discover"
  /\ \E ok \in BOOLEAN :
       IF ok
       THEN /\ arg' = DiscoverProjects(markers)
            /\ pc' = "sb_mkdir"
            /\ UNCHANGED <<op, ret, ioFailed>>
       ELSE /\ Return(Err("scan"))
            /\ ioFailed' = TRUE
            /\ UNCHANGED arg
  /\ UNCHANGED <<index, indexTmp, recs, recTmp, i, loaded, oplog, committed, interrupted,
                 nops, SaveIdle>>

\* a project appears on disk or its .hegel directory is removed
MarkerChange ==
  /\ pc = "idle"
  /\ \E p \in Paths :
       markers' = IF p \in markers THEN markers \ {p} ELSE markers \cup {p}
  /\ UNCHANGED <<index, indexTmp, recs, recTmp, snap, snapTmp, op, pc, arg, i, ret,
                 loaded, oplog, committed, interrupted, ioFailed, nops, fd, snapLoaded,
                 mgrVars, workerVars, walk>>

\* the cache directory is deleted from outside; cache.json stays
DropShardedCache ==
  /\ pc = "idle"
  /\ index.st = "full"
  /\ index' = Absent
  /\ indexTmp' = Absent
  /\ recs' = [s \in SafeNames |-> Absent]
  /\ recTmp' = [s \in SafeNames |-> Absent]
  /\ op' = "env"
  /\ loaded' = NoResult
  /\ committed' = NoCommit
  /\ UNCHANGED <<markers, snap, snapTmp, pc, arg, i, ret, oplog, interrupted, ioFailed,
                 nops, fd, snapLoaded, mgrVars, workerVars, walk>>

\* index.bin or cache.json is overwritten with bytes that do not decode, or cut short
DamageTop ==
  /\ pc = "idle"
  /\ \E how \in {Garbage, Partial} :
       \/ (index.st = "full" /\ index' = how /\ UNCHANGED snap)
       \/ (snap.st = "full" /\ snap' = how /\ UNCHANGED index)
  /\ loaded' = NoResult
  /\ op' = "env"
  /\ committed' = NoCommit
  /\ UNCHANGED <<markers, indexTmp, recs, recTmp, snapTmp, pc, arg, i, ret, oplog,
                 interrupted, ioFailed, nops, fd, snapLoaded, mgrVars, workerVars, walk>>

(***************************************************************************)
(* remove_from_cache (cache.rs 249-279) and refresh_project (cache.rs      *)
(* 322-387), the operations behind the remove and refresh commands.  While *)
(* one of them runs, arg is a record: the name given, the index entries    *)
(* read at the start (old), the entries to write (index), the rediscovered *)
(* project, and, for the comparison of before and after, the index and     *)
(* record files as they were at the start (files).                         *)
(***************************************************************************)
\* names given on the command line
CliNames == {NameOf(p) : p \in Paths}

\* index.retain(|entry| entry.name != project_name)
RetainKeepsAll(entries, name) == entries

Retain(entries, name) == SelectSeq(entries, LAMBDA e : e.name # name)

\* index.iter().find(|e| e.name == project_name): position of the first match, 0 if none
FindEntry(entries, name) ==
  IF \E k \in 1..Len(entries) : entries[k].name = name
  THEN CHOOSE k \in 1..Len(entries) :
         entries[k].name = name /\ \A j \in 1..(k - 1) : entries[j].name # name
  ELSE 0

NoCacheFound == Err("No cache found")
NotInCache == Err("not found in cache")
NotAtCachedPath == Err("not found at cached path")

\* remove_from_cache up to the decision to rewrite the index
RemoveRoute(name, idx) ==
  CASE idx.tag = "err" -> [pc |-> "idle", ret |-> idx]
    [] idx.tag = "nocache" -> [pc |-> "idle", ret |-> Ok(FALSE)]
    [] Len(Retain(idx.v, name)) = Len(idx.v) -> [pc |-> "idle", ret |-> Ok(FALSE)]
    [] OTHER -> [pc |-> "cli_idx_open", ret |-> NoResult]

\* the project refresh_project rebuilds from the cached path
Rediscovered(name, path) == [ScanRecord(path) EXCEPT !.name = name]

\* refresh_project up to the decision to rewrite the index
RefreshRouteOneError(name, idx, marks) ==
  IF idx.tag = "ok" /\ FindEntry(idx.v, name) # 0 /\ idx.v[FindEntry(idx.v, name)].path \in marks
  THEN [pc |-> "cli_idx_open", ret |-> NoResult]
  ELSE [pc |-> "idle", ret |-> NoCacheFound]

RefreshRoute(name, idx, marks) ==
  CASE idx.tag = "err" -> [pc |-> "idle", ret |-> idx]
    [] idx.tag = "nocache" -> [pc |-> "idle", ret |-> NoCacheFound]
    [] FindEntry(idx.v, name) = 0 -> [pc |-> "idle", ret |-> NotInCache]
    [] idx.v[FindEntry(idx.v, name)].path \notin marks ->
         [pc |-> "idle", ret |-> NotAtCachedPath]
    [] OTHER -> [pc |-> "cli_idx_open", ret |-> NoResult]

\* the index refresh_project writes: the first entry of that name updated
RefreshedIndex(entries, name) ==
  IF FindEntry(entries, name) = 0 THEN entries
  ELSE [entries EXCEPT ![FindEntry(entries, name)] =
          IndexEntry(Rediscovered(name, entries[FindEntry(entries, name)].path))]

CliIdle == <<recs, recTmp, index, indexTmp, committed, SaveIdle>>

\* remove_from_cache(project_name, config) is called
StartRemove ==
  /\ pc = "idle"
  /\ nops < MaxOps
  /\ \E name \in CliNames :
       LET idx == ReadIndex(index)
           entries == IF idx.tag = "ok" THEN idx.v ELSE <<>>
       IN /\ arg' = [name |-> name, old |-> entries, index |-> Retain(entries, name),
                     project |-> <<>>, files |-> [index |-> index, recs |-> recs]]
          /\ pc' = RemoveRoute(name, idx).pc
          /\ ret' = RemoveRoute(name, idx).ret
  /\ op' = "remove"
  /\ i' = 0
  /\ oplog' = NoLog
  /\ ioFailed' = FALSE
  /\ interrupted' = FALSE
  /\ loaded' = NoResult
  /\ nops' = nops + 1
  /\ UNCHANGED CliIdle

\* refresh_project(project_name, config) is called
StartRefresh ==
  /\ pc = "idle"
  /\ nops < MaxOps
  /\ \E name \in CliNames :
       LET idx == ReadIndex(index)
           entries == IF idx.tag = "ok" THEN idx.v ELSE <<>>
           k == FindEntry(entries, name)
       IN /\ arg' = [name |-> name, old |-> entries,
                     index |-> RefreshedIndex(entries, name),
                     project |-> IF k = 0 THEN <<>>
                                 ELSE <<Rediscovered(name, entries[k].path)>>,
                     files |-> [index |-> index, recs |-> recs]]
          /\ pc' = RefreshRoute(name, idx, markers).pc
          /\ ret' = RefreshRoute(name, idx, markers).ret
  /\ op' = "refresh"
  /\ i' = 0
  /\ oplog' = NoLog
  /\ ioFailed' = FALSE
  /\ interrupted' = FALSE
  /\ loaded' = NoResult
  /\ nops' = nops + 1
  /\ UNCHANGED CliIdle

\* write_index(&index, &cache_dir)?: fs::write opens index.bin.tmp
CliIdxOpen ==
  /\ pc = "cli_idx_open"
  /\ oplog' = Log("idx", 0)
  /\ \E ok \in BOOLEAN :
       IF ok
       THEN /\ indexTmp' = Partial
            /\ pc' = "cli_idx_write"
            /\ UNCHANGED <<op, ret, ioFailed>>
       ELSE /\ Return(Err("index"))
            /\ ioFailed' = TRUE
            /\ UNCHANGED indexTmp
  /\ UNCHANGED <<index, recs, recTmp, arg, i, loaded, committed, interrupted, nops,
                 SaveIdle>>

\* write_index: fs::write writes the serialized index
CliIdxWrite ==
  /\ pc = "cli_idx_write"
  /\ oplog' = Log("idx", 0)
  /\ indexTmp' = Full(arg.index)
  /\ pc' = "cli_idx_rename"
  /\ UNCHANGED <<index, recs, recTmp, op, arg, i, ret, loaded, committed, interrupted,
                 ioFailed, nops, SaveIdle>>

\* write_index: fs::rename; remove goes on to the record file, refresh to write_project
CliIdxRename ==
  /\ pc = "cli_idx_rename"
  /\ oplog' = Log("idx", 0)
  /\ index' = indexTmp
  /\ indexTmp' = Absent
  /\ committed' = NoCommit
  /\ pc' = IF op = "remove" THEN "rm_unlink" ELSE "rf_rec_open"
  /\ UNCHANGED <<op, recs, recTmp, arg, i, ret, loaded, interrupted, ioFailed, nops,
                 SaveIdle>>

\* remove_from_cache: if project_path.exists() { fs::remove_file(..).ok() }; Ok(true)
RmUnlink ==
  /\ pc = "rm_unlink"
  /\ \E ok \in BOOLEAN :
       IF ok /\ recs[Sanitize(arg.name)].st # "absent"
       THEN /\ recs' = [recs EXCEPT ![Sanitize(arg.name)] = Absent]
            /\ oplog' = Log("rec", 0)
            /\ UNCHANGED ioFailed
       ELSE /\ ioFailed' = (recs[Sanitize(arg.name)].st # "absent")
            /\ UNCHANGED <<recs, oplog>>
  /\ Return(Ok(TRUE))
  /\ UNCHANGED <<index, indexTmp, recTmp, arg, i, loaded, committed, interrupted, nops,
                 SaveIdle>>

\* refresh_project: write_project(&refreshed_project, ..)?: fs::write opens the temp file
RfRecOpen ==
  /\ pc = "rf_rec_open"
  /\ oplog' = Log("rec", 0)
  /\ \E ok \in BOOLEAN :
       IF ok
       THEN /\ recTmp' = [recTmp EXCEPT ![Sanitize(arg.name)] = Partial]
            /\ pc' = "rf_rec_write"
            /\ UNCHANGED <<op, ret, ioFailed>>
       ELSE /\ Return(Err("project"))
            /\ ioFailed' = TRUE
            /\ UNCHANGED recTmp
  /\ UNCHANGED <<index, indexTmp, recs, arg, i, loaded, committed, interrupted, nops,
                 SaveIdle>>

\* write_project: fs::write writes the serialized, stripped copy
RfRecWrite ==
  /\ pc = "rf_rec_write"
  /\ oplog' = Log("rec", 0)
  /\ recTmp' = [recTmp EXCEPT ![Sanitize(arg.name)] = Full(<<StripHeavy(arg.project[1])>>)]
  /\ pc' = "rf_rec_rename"
  /\ UNCHANGED <<index, indexTmp, recs, op, arg, i, ret, loaded, committed, interrupted,
                 ioFailed, nops, SaveIdle>>

\* write_project: fs::rename; Ok(true)
RfRecRename ==
  /\ pc = "rf_rec_rename"
  /\ oplog' = Log("rec", 0)
  /\ recs' = [recs EXCEPT ![Sanitize(arg.name)] = recTmp[Sanitize(arg.name)]]
  /\ recTmp' = [recTmp EXCEPT ![Sanitize(arg.name)] = Absent]
  /\ Return(Ok(TRUE))
  /\ UNCHANGED <<index, indexTmp, arg, i, loaded, committed, interrupted, ioFailed, nops,
                 SaveIdle>>

CliSteps ==
  \/ CliIdxOpen
  \/ CliIdxWrite
  \/ CliIdxRename
  \/ RmUnlink
  \/ RfRecOpen
  \/ RfRecWrite
  \/ RfRecRename

(***************************************************************************)
(* CacheManager (cache_manager.rs): queue_save sends the list on an        *)
(* unbounded channel; cache_worker keeps at most one pending list and      *)
(* writes it with save_cache when its 100 ms sleep wins the select.        *)
(***************************************************************************)
NoPending == [some |-> FALSE, v |-> <<>>]

\* the server's project table with the statistics of the roots in S loaded
WithStatistics(projects, S) ==
  [k \in 1..Len(projects) |->
     IF projects[k].path \in S THEN [projects[k] EXCEPT !.stats = "st"] ELSE projects[k]]

\* the lists the server hands to queue_save
ServerLists == {WithStatistics(DiscoverProjects(Paths), S) : S \in {{}, {1}, {2}}}

MgrIdle == <<markers, index, indexTmp, recs, recTmp, op, pc, arg, i, ret, loaded, oplog,
             committed, interrupted, ioFailed, nops, snapLoaded, workerVars, walk>>

\* CacheManager::queue_save(projects)
QueueSave ==
  /\ nqueued < MaxQueued
  /\ \E projects \in ServerLists :
       /\ mq' = Append(mq, projects)
       /\ mlog' = [mlog EXCEPT !.queued = Append(@, projects)]
  /\ nqueued' = nqueued + 1
  /\ UNCHANGED <<pending, mpc, marg, snap, snapTmp, fd, MgrIdle>>

\* what cache_worker keeps when a request arrives
KeepPendingNewest(old, projects) == [some |-> TRUE, v |-> projects]

KeepPending(old, projects) == IF old.some THEN old ELSE [some |-> TRUE, v |-> projects]

\* cache_worker: Some(projects) = rx.recv()
MgrRecv ==
  /\ mpc = "wait"
  /\ mq # <<>>
  /\ pending' = KeepPending(pending, Head(mq))
  /\ mq' = Tail(mq)
  /\ mlog' = IF pending.some THEN [mlog EXCEPT !.discarded = Append(@, Head(mq))] ELSE mlog
  /\ UNCHANGED <<mpc, marg, nqueued, snap, snapTmp, fd, MgrIdle>>

\* cache_worker: the sleep arm, enabled if pending.is_some(); pending.take()
MgrTimeout ==
  /\ mpc = "wait"
  /\ pending.some
  /\ marg' = pending.v
  /\ pending' = NoPending
  /\ mpc' = "s_open"
  /\ mlog' = [mlog EXCEPT !.saves = Append(@, pending.v)]
  /\ UNCHANGED <<mq, nqueued, snap, snapTmp, fd, MgrIdle>>

\* save_cache in cache_worker: fs::write opens the temp file; a failure is warned
MgrSnapOpen ==
  /\ mpc = "s_open"
  /\ \E ok \in BOOLEAN :
       IF ok
       THEN /\ OpenSnapTmp("manager")
            /\ mpc' = "s_write"
       ELSE /\ mpc' = "wait"
            /\ UNCHANGED <<snap, snapTmp, fd>>
  /\ UNCHANGED <<mq, pending, marg, nqueued, mlog, MgrIdle>>

\* save_cache in cache_worker: fs::write writes the serialized list
MgrSnapWrite ==
  /\ mpc = "s_write"
  /\ WriteSnapFd("manager", marg)
  /\ mpc' = "s_rename"
  /\ UNCHANGED <<mq, pending, marg, nqueued, mlog, MgrIdle>>

\* save_cache in cache_worker: fs::rename; a failure is warned
MgrSnapRename ==
  /\ mpc = "s_rename"
  /\ IF snapTmp.st # "absent"
     THEN /\ RenameSnapTmp
          /\ mlog' = [mlog EXCEPT !.written = Append(@, marg)]
     ELSE UNCHANGED <<snap, snapTmp, fd, mlog>>
  /\ mpc' = "wait"
  /\ UNCHANGED <<mq, pending, marg, nqueued, MgrIdle>>

ManagerSteps ==
  \/ QueueSave
  \/ MgrRecv
  \/ MgrTimeout
  \/ MgrSnapOpen
  \/ MgrSnapWrite
  \/ MgrSnapRename

(***************************************************************************)
(* The request worker (data_layer/worker.rs) and its ResponseCache         *)
(* (data_layer/cache.rs).  run() dequeues one request at a time; a         *)
(* GetProjectMetrics miss spawns a task that runs load_project_metrics     *)
(* beside the worker.  A section under the table's RwLock is one step.     *)
(* The project name <<>> in a RefreshCache request stands for None (a      *)
(* directory name is never empty).  Serialization of a reply is taken to   *)
(* succeed; the payload is the value serialized.                           *)
(***************************************************************************)
\* the roots the engine returned to WorkerPool::new
PoolPaths == {1, 2}

PoolTable == DiscoverProjects(PoolPaths)

\* names a client asks for: one in the table, one not
ReqNames == {NameOf(1), NameOf(3)}

Req(kind, name) == [kind |-> kind, name |-> name]

Requests ==
  {Req("GetProjects", <<>>), Req("GetAllProjects", <<>>), Req("RefreshCache", <<>>)}
    \cup {Req(kind, name) : kind \in {"GetProjectMetrics", "RefreshCache"}, name \in ReqNames}

\* CacheKey
ProjectList == [kind |-> "ProjectList", name |-> <<>>]
ProjectMetrics(name) == [kind |-> "ProjectMetrics", name |-> name]
AllProjectsAggregate == [kind |-> "AllProjectsAggregate", name |-> <<>>]

\* ResponseCache::insert
CacheInsertNothing(c, key, bytes) == c

CacheInsertKeepsOld(c, key, bytes) ==
  [k \in DOMAIN c \cup {key} |-> IF k \in DOMAIN c THEN c[k] ELSE bytes]

CacheInsert(c, key, bytes) ==
  [k \in DOMAIN c \cup {key} |-> IF k = key THEN bytes ELSE c[k]]

\* ResponseCache::invalidate
CacheInvalidateClears(c, key) == <<>>

CacheInvalidate(c, key) == [k \in DOMAIN c \ {key} |-> c[k]]

\* ResponseCache::clear
CacheClear(c) == <<>>

\* ResponseCache::get: Some(bytes) or None
CacheGet(c, key) == IF key \in DOMAIN c THEN Ok(c[key]) ELSE NoResult

\* what the metrics files of a project can hold
MetricsContents == {"m0", "m1", "corrupt"}

\* hegel::metrics::parse_unified_metrics
ParseMetrics(content) ==
  IF content = "corrupt"
  THEN Err([error |-> "ParseError", msg |-> <<>>])
  ELSE Ok(content)

ProjectNotFound(name) == Err([error |-> "ProjectNotFound", msg |-> name])

\* projects.iter().find(|p| p.name == name): position of the first match, 0 if none
FindProjectFirst(tbl, name) == 1

FindProject(tbl, name) ==
  IF \E k \in 1..Len(tbl) : tbl[k].name = name
  THEN CHOOSE k \in 1..Len(tbl) :
         tbl[k].name = name /\ \A j \in 1..(k - 1) : tbl[j].name # name
  ELSE 0

\* project.statistics = Some(stats) on the first record with that name
StoreStatisticsKeepsOnlyNamed(tbl, name, stats) ==
  IF FindProject(tbl, name) = 0 THEN tbl
  ELSE <<[tbl[FindProject(tbl, name)] EXCEPT !.stats = stats]>>

StoreStatisticsClearsState(tbl, name, stats) ==
  IF FindProject(tbl, name) = 0 THEN tbl
  ELSE [tbl EXCEPT ![FindProject(tbl, name)] = [@ EXCEPT !.stats = stats, !.ws = None]]

StoreStatisticsNothing(tbl, name, stats) == tbl

StoreStatistics(tbl, name, stats) ==
  IF FindProject(tbl, name) = 0 THEN tbl
  ELSE [tbl EXCEPT ![FindProject(tbl, name)].stats = stats]

\* the serialized Vec<ProjectListItem>
ListPayload(tbl) ==
  [k \in 1..Len(tbl) |-> [name |-> tbl[k].name, workflow_state |-> tbl[k].ws]]

\* token total of one parsed statistics value
TokensOf(stats) == IF stats = "m0" THEN 1 ELSE 2

SumTokensCountsAll(tbl, k) == k

RECURSIVE SumTokens(_, _)
SumTokens(tbl, k) ==
  IF k = 0 THEN 0
  ELSE SumTokens(tbl, k - 1) + (IF tbl[k].stats = None THEN 0 ELSE TokensOf(tbl[k].stats))

\* the serialized AllProjectsAggregate
AggregatePayload(tbl) ==
  [total_projects |-> Len(tbl), total_all_tokens |-> SumTokens(tbl, Len(tbl))]

\* the serialized ProjectInfo
ProjectInfo(name, stats, ws) ==
  [project_name |-> name, summary |-> stats, current_workflow_state |-> ws]

\* load_project_metrics, statistics already in the table
InfoFromTableDropsState(project, name) == ProjectInfo(name, project.stats, None)

InfoFromTableNoStats(project, name) == ProjectInfo(name, None, project.ws)

InfoFromTable(project, name) == ProjectInfo(name, project.stats, project.ws)

\* the receiver of a reply channel was dropped before the reply was sent
Dropped == [tag |-> "dropped", v |-> <<>>]

\* let _ = reply.send(msg): delivered unless the receiver is gone, the error ignored
Send(rs, id, msg) == IF rs[id].tag = "dropped" THEN rs ELSE [rs EXCEPT ![id] = msg]

\* Vec<u8> sent on a reply channel that carries no Result
Bytes(val) == [tag |-> "bytes", v |-> val]

\* a request that spawned no load, or whose load has finished
NoTask == [pc |-> "none", dir |-> 0, stats |-> None, ws |-> None, result |-> NoResult]

ReqIds == 1..MaxReqs

InitWorker ==
  /\ table = PoolTable
  /\ cache = <<>>
  /\ reqs = <<>>
  /\ handled = 0
  /\ tasks = [id \in ReqIds |-> NoTask]
  /\ replies = [id \in ReqIds |-> NoResult]
  /\ disk = [p \in PoolPaths |-> "m0"]
  /\ nchanges = 0
  /\ parsed = {}
  /\ access = {}
  /\ calls = <<>>

(***************************************************************************)
(* The scanner (discovery/walker.rs).  A directory is the sequence of the  *)
(* names on its path from the scanned root, the root's own name first; a   *)
(* tree is a set of directories closed under parents.  Only directories    *)
(* are modelled: a file is never a marker and is never descended into.     *)
(* The result is kept as a set; WalkDir yields it in readdir order.        *)
(***************************************************************************)
DirNames == {"w", "target"}

Marker == ".hegel"

RECURSIVE DirsUpTo(_)
DirsUpTo(n) ==
  IF n = 0 THEN {}
  ELSE LET shorter == DirsUpTo(n - 1)
       IN shorter \cup {<<name>> : name \in DirNames}
                  \cup {Append(d, name) : d \in {e \in shorter : Len(e) = n - 1},
                                          name \in DirNames}

\* the subsets of S with at most n elements
RECURSIVE SubsetsUpTo(_, _)
SubsetsUpTo(S, n) ==
  IF n = 0 THEN {{}}
  ELSE LET fewer == SubsetsUpTo(S, n - 1)
       IN fewer \cup {T \cup {x} : T \in fewer, x \in S}

\* every directory of the tree that holds the given project directories
TreeOf(projectDirs) ==
  UNION {{SubSeq(d, 1, k) : k \in 1..Len(d)} : d \in projectDirs}
    \cup {Append(d, Marker) : d \in projectDirs}

\* a scanned root with at most MaxProjects project directories somewhere below it
Trees ==
  {TreeOf(projectDirs) : projectDirs \in
     {S \in SubsetsUpTo(DirsUpTo(MaxDirDepth), MaxProjects) :
        \A d1, d2 \in S : d1[1] = d2[1]}}

Children(dirs, path) ==
  {d \in dirs : Len(d) = Len(path) + 1 /\ SubSeq(d, 1, Len(path)) = path}

\* a symbolic link: the path it sits at and the directory it points to
LinksIn(dirs) ==
  {l \in UNION {{[at |-> Append(d, name), to |-> t] : name \in {"l", Marker}, t \in dirs} :
                  d \in {e \in dirs : e[Len(e)] # Marker}} :
     l.at \notin dirs}

\* the sets of at most n links a tree can hold
RECURSIVE LinkSets(_, _)
LinkSets(dirs, n) ==
  IF n = 0 THEN {{}}
  ELSE LET fewer == LinkSets(dirs, n - 1)
       IN fewer \cup {links \cup {l} : links \in fewer, l \in LinksIn(dirs)}

\* the entries read_dir yields in directory real, walked to as path
ChildEntries(dirs, links, path, real) ==
  {[path |-> Append(path, d[Len(d)]), real |-> d, link |-> FALSE] :
     d \in Children(dirs, real)}
    \cup {[path |-> Append(path, l.at[Len(l.at)]), real |-> l.to, link |-> TRUE] :
            l \in {k \in links : SubSeq(k.at, 1, Len(k.at) - 1) = real}}

\* the filter_entry predicate, negated
ExcludedNever(name, exclusions) == FALSE

Excluded(name, exclusions) == name \in exclusions

\* WalkDir::follow_links(false)
FollowLinksOn == TRUE

FollowLinks == FALSE

\* WalkDir from entry e at the given depth: what is yielded and what is found
RECURSIVE WalkFrom(_, _, _, _, _, _)
WalkFrom(dirs, links, e, depth, max_depth, exclusions) ==
  IF Excluded(e.path[Len(e.path)], exclusions)
  THEN [visited |-> {}, found |-> {}]
  ELSE LET is_dir == ~e.link \/ FollowLinks
           below == IF is_dir /\ depth < max_depth
                    THEN {WalkFrom(dirs, links, c, depth + 1, max_depth, exclusions) :
                            c \in ChildEntries(dirs, links, e.path, e.real)}
                    ELSE {}
       IN [visited |-> {e.path} \cup UNION {b.visited : b \in below},
           found |-> (IF is_dir /\ e.path[Len(e.path)] = Marker
                      THEN {SubSeq(e.path, 1, Len(e.path) - 1)} ELSE {})
                       \cup UNION {b.found : b \in below}]

\* the entry of the scanned root
RootEntry(dirs) ==
  LET r == CHOOSE d \in dirs : Len(d) = 1 IN [path |-> r, real |-> r, link |-> FALSE]

\* find_hegel_directories(root, max_depth, exclusions)
FindHegelDirectoriesNoLimit(dirs, links, max_depth, exclusions) ==
  IF dirs = {} THEN [visited |-> {}, found |-> {}]
  ELSE WalkFrom(dirs, links, RootEntry(dirs), 0, MaxDirDepth + 1, exclusions)

FindHegelDirectories(dirs, links, max_depth, exclusions) ==
  IF dirs = {} THEN [visited |-> {}, found |-> {}]
  ELSE WalkFrom(dirs, links, RootEntry(dirs), 0, max_depth, exclusions)

NoWalk == [pc |-> "none", dirs |-> {}, links |-> {}, max_depth |-> 0, exclusions |-> {},
           visited |-> {}, found |-> {}, roots |-> <<>>, projects |-> <<>>]

\* the arguments of a call, on a tree without symbolic links
InitWalk ==
  /\ InitCache
  /\ InitWorker
  /\ walk \in {[NoWalk EXCEPT !.pc = "call", !.dirs = dirs, !.max_depth = max_depth,
                              !.exclusions = exclusions] :
                 dirs \in Trees, max_depth \in 0..MaxDirDepth,
                 exclusions \in SUBSET {"target", Marker}}

\* the arguments of a call, on a tree with symbolic links
InitWalkLinks ==
  /\ InitCache
  /\ InitWorker
  /\ \E dirs \in Trees :
       \E links \in LinkSets(dirs, MaxLinks) \ {{}}, max_depth \in 0..MaxDirDepth :
         walk = [NoWalk EXCEPT !.pc = "call", !.dirs = dirs, !.links = links,
                               !.max_depth = max_depth]

\* the call returns
Walk ==
  /\ walk.pc = "call"
  /\ LET r == FindHegelDirectories(walk.dirs, walk.links, walk.max_depth, walk.exclusions)
     IN walk' = [walk EXCEPT !.pc = "done", !.visited = r.visited, !.found = r.found]
  /\ UNCHANGED <<cacheVars, mgrVars, workerVars>>

(***************************************************************************)
(* discover_projects (discover.rs 7-51) over several configured roots of   *)
(* one directory tree.  A root is a directory of the tree; the paths found *)
(* below it are the same absolute paths whichever root the walk began at.  *)
(* The projects of the tree have no state file.                            *)
(***************************************************************************)
\* DiscoveredProject::new for the project directory d
TreeRecord(d) ==
  [name |-> d[Len(d)], path |-> d, ws |-> None, stats |-> None, err |-> None, la |-> Len(d)]

\* the records of the project directories one walk returned, in the walk's order
RECURSIVE RecordsOf(_)
RecordsOf(found) ==
  IF found = {} THEN <<>>
  ELSE LET d == CHOOSE x \in found : TRUE
       IN <<TreeRecord(d)>> \o RecordsOf(found \ {d})

\* for root in &config.root_directories: find_hegel_directories, one record per path
RECURSIVE ScanRootsFirstOnly(_, _, _, _)
ScanRootsFirstOnly(dirs, roots, max_depth, exclusions) ==
  IF roots = <<>> THEN <<>>
  ELSE RecordsOf(WalkFrom(dirs, {}, [path |-> Head(roots), real |-> Head(roots),
                                     link |-> FALSE], 0, max_depth, exclusions).found)

RECURSIVE ScanRoots(_, _, _, _)
ScanRoots(dirs, roots, max_depth, exclusions) ==
  IF roots = <<>> THEN <<>>
  ELSE RecordsOf(WalkFrom(dirs, {}, [path |-> Head(roots), real |-> Head(roots),
                                     link |-> FALSE], 0, max_depth, exclusions).found)
         \o ScanRoots(dirs, Tail(roots), max_depth, exclusions)

\* discover_projects(config): every root scanned, then all_projects.sort()
DiscoverRoots(dirs, roots, max_depth, exclusions) ==
  SortByActivity(ScanRoots(dirs, roots, max_depth, exclusions))

\* directories a configuration names as roots: the top directory of the tree
\* and the directories directly below it
RootChoices(dirs) ==
  {d \in dirs : Len(d) = 1}
    \cup {c \in Children(dirs, RootEntry(dirs).path) : c[Len(c)] # Marker}

\* a validated configuration: existing directories as roots, max_depth >= 1
InitDiscover ==
  /\ InitCache
  /\ InitWorker
  /\ \E dirs \in Trees \ {{}} :
       \E roots \in SeqsUpTo(RootChoices(dirs), MaxRoots) \ {<<>>},
          max_depth \in 1..MaxDirDepth, exclusions \in {{}, {"target"}} :
         walk = [NoWalk EXCEPT !.pc = "scan", !.dirs = dirs, !.roots = roots,
                               !.max_depth = max_depth, !.exclusions = exclusions]

\* discover_projects returns
DiscoverAll ==
  /\ walk.pc = "scan"
  /\ walk' = [walk EXCEPT !.pc = "done",
                          !.projects = DiscoverRoots(walk.dirs, walk.roots, walk.max_depth,
                                                     walk.exclusions)]
  /\ UNCHANGED <<cacheVars, mgrVars, workerVars>>

Init == InitCache /\ InitWorker /\ walk = NoWalk

WorkerIdle == <<cacheVars, mgrVars, walk, calls>>

\* a client sends a request on the channel
Enqueue ==
  /\ Len(reqs) < MaxReqs
  /\ \E r \in Requests :
       reqs' = Append(reqs, [kind |-> r.kind, name |-> r.name,
                             early |-> \A q \in parsed : q.name # r.name])
  /\ UNCHANGED <<table, cache, handled, tasks, replies, disk, nchanges, parsed, access,
                 WorkerIdle>>

\* the request run() dequeues next
NextReqNewest == reqs[Len(reqs)]

NextReq == reqs[handled + 1]

DequeuesAfterLoads(kind) ==
  /\ handled < Len(reqs)
  /\ NextReq.kind = kind
  /\ \A id \in ReqIds : tasks[id].pc = "none"

DequeuesUnlessDropped(kind) ==
  handled < Len(reqs) /\ NextReq.kind = kind /\ replies[handled + 1].tag # "dropped"

Dequeues(kind) == handled < Len(reqs) /\ NextReq.kind = kind

Touch(who, what, id) == access \cup {[who |-> who, what |-> what, req |-> id]}

\* handle_get_projects
HandleGetProjects ==
  /\ Dequeues("GetProjects")
  /\ handled' = handled + 1
  /\ IF ProjectList \in DOMAIN cache
     THEN /\ replies' = Send(replies, handled + 1, Bytes(cache[ProjectList]))
          /\ UNCHANGED <<cache, access>>
     ELSE /\ access' = Touch("worker", "table_read", handled + 1)
          /\ cache' = CacheInsert(cache, ProjectList, ListPayload(table))
          /\ replies' = Send(replies, handled + 1, Bytes(ListPayload(table)))
  /\ UNCHANGED <<table, reqs, tasks, disk, nchanges, parsed, WorkerIdle>>

\* handle_get_all_projects
HandleGetAllProjectsRecomputes ==
  /\ Dequeues("GetAllProjects")
  /\ handled' = handled + 1
  /\ access' = Touch("worker", "table_read", handled + 1)
  /\ cache' = CacheInsert(cache, AllProjectsAggregate, AggregatePayload(table))
  /\ replies' = Send(replies, handled + 1, Bytes(AggregatePayload(table)))
  /\ UNCHANGED <<table, reqs, tasks, disk, nchanges, parsed, WorkerIdle>>

HandleGetAllProjects ==
  /\ Dequeues("GetAllProjects")
  /\ handled' = handled + 1
  /\ IF AllProjectsAggregate \in DOMAIN cache
     THEN /\ replies' = Send(replies, handled + 1, Bytes(cache[AllProjectsAggregate]))
          /\ UNCHANGED <<cache, access>>
     ELSE /\ access' = Touch("worker", "table_read", handled + 1)
          /\ cache' = CacheInsert(cache, AllProjectsAggregate, AggregatePayload(table))
          /\ replies' = Send(replies, handled + 1, Bytes(AggregatePayload(table)))
  /\ UNCHANGED <<table, reqs, tasks, disk, nchanges, parsed, WorkerIdle>>

\* handle_get_project_metrics: a hit replies, a miss spawns the load
HandleGetProjectMetrics ==
  /\ Dequeues("GetProjectMetrics")
  /\ handled' = handled + 1
  /\ IF ProjectMetrics(NextReq.name) \in DOMAIN cache
     THEN /\ replies' = Send(replies, handled + 1, Ok(cache[ProjectMetrics(NextReq.name)]))
          /\ UNCHANGED tasks
     ELSE /\ tasks' = [tasks EXCEPT ![handled + 1] = [NoTask EXCEPT !.pc = "find"]]
          /\ UNCHANGED replies
  /\ UNCHANGED <<table, cache, reqs, disk, nchanges, parsed, access, WorkerIdle>>

\* handle_refresh_cache
HandleRefreshCacheResetsStatistics ==
  /\ Dequeues("RefreshCache")
  /\ handled' = handled + 1
  /\ cache' = IF NextReq.name # <<>>
              THEN CacheInvalidate(cache, ProjectMetrics(NextReq.name))
              ELSE CacheInvalidate(CacheInvalidate(cache, ProjectList), AllProjectsAggregate)
  /\ table' = [k \in 1..Len(table) |-> [table[k] EXCEPT !.stats = None]]
  /\ UNCHANGED <<reqs, tasks, replies, disk, nchanges, parsed, access, WorkerIdle>>

HandleRefreshCacheIgnoresName ==
  /\ Dequeues("RefreshCache")
  /\ handled' = handled + 1
  /\ cache' = IF NextReq.name # <<>>
              THEN cache
              ELSE CacheInvalidate(CacheInvalidate(cache, ProjectList), AllProjectsAggregate)
  /\ UNCHANGED <<table, reqs, tasks, replies, disk, nchanges, parsed, access, WorkerIdle>>

HandleRefreshCache ==
  /\ Dequeues("RefreshCache")
  /\ handled' = handled + 1
  /\ cache' = IF NextReq.name # <<>>
              THEN CacheInvalidate(cache, ProjectMetrics(NextReq.name))
              ELSE CacheInvalidate(CacheInvalidate(cache, ProjectList), AllProjectsAggregate)
  /\ UNCHANGED <<table, reqs, tasks, replies, disk, nchanges, parsed, access, WorkerIdle>>

\* load_project_metrics, the section under projects.read()
TaskFind(id) ==
  /\ tasks[id].pc = "find"
  /\ access' = Touch("task", "table_read", id)
  /\ LET name == reqs[id].name
         k == FindProject(table, name)
     IN tasks' = [tasks EXCEPT ![id] =
          CASE k = 0 -> [NoTask EXCEPT !.pc = "reply", !.result = ProjectNotFound(name)]
            [] k # 0 /\ table[k].stats # None ->
                 [NoTask EXCEPT !.pc = "reply", !.result = Ok(InfoFromTable(table[k], name))]
            [] OTHER -> [NoTask EXCEPT !.pc = "parse", !.dir = table[k].path,
                                       !.ws = table[k].ws]]
  /\ UNCHANGED <<table, cache, reqs, handled, replies, disk, nchanges, parsed, WorkerIdle>>

\* load_project_metrics: parse_unified_metrics(&hegel_dir, true), no lock held
TaskParse(id) ==
  /\ tasks[id].pc = "parse"
  /\ access' = Touch("task", "disk_read", id)
  /\ parsed' = parsed \cup {[name |-> reqs[id].name, content |-> disk[tasks[id].dir]]}
  /\ LET stats == ParseMetrics(disk[tasks[id].dir])
     IN tasks' = [tasks EXCEPT ![id] =
          IF stats.tag = "ok"
          THEN [@ EXCEPT !.pc = "store", !.stats = stats.v]
          ELSE [NoTask EXCEPT !.pc = "reply", !.result = stats]]
  /\ UNCHANGED <<table, cache, reqs, handled, replies, disk, nchanges, WorkerIdle>>

\* load_project_metrics: the section under projects.write(), then the response
TaskStore(id) ==
  /\ tasks[id].pc = "store"
  /\ access' = Touch("task", "table_write", id)
  /\ table' = StoreStatistics(table, reqs[id].name, tasks[id].stats)
  /\ tasks' = [tasks EXCEPT ![id] =
       [NoTask EXCEPT !.pc = "reply",
                      !.result = Ok(ProjectInfo(reqs[id].name, tasks[id].stats, tasks[id].ws))]]
  /\ UNCHANGED <<cache, reqs, handled, replies, disk, nchanges, parsed, WorkerIdle>>

\* the spawned task after load_project_metrics: cache.insert on Ok, reply.send
TaskReplyOnlyOk(id) ==
  /\ tasks[id].pc = "reply"
  /\ cache' = IF tasks[id].result.tag = "ok"
              THEN CacheInsert(cache, ProjectMetrics(reqs[id].name), tasks[id].result.v)
              ELSE cache
  /\ replies' = IF tasks[id].result.tag = "ok"
                THEN Send(replies, id, tasks[id].result)
                ELSE replies
  /\ tasks' = [tasks EXCEPT ![id] = NoTask]
  /\ UNCHANGED <<table, reqs, handled, disk, nchanges, parsed, access, WorkerIdle>>

TaskReply(id) ==
  /\ tasks[id].pc = "reply"
  /\ cache' = IF tasks[id].result.tag = "ok"
              THEN CacheInsert(cache, ProjectMetrics(reqs[id].name), tasks[id].result.v)
              ELSE cache
  /\ replies' = Send(replies, id, tasks[id].result)
  /\ tasks' = [tasks EXCEPT ![id] = NoTask]
  /\ UNCHANGED <<table, reqs, handled, disk, nchanges, parsed, access, WorkerIdle>>

TaskStep(id) ==
  \/ TaskFind(id)
  \/ TaskParse(id)
  \/ TaskStore(id)
  \/ TaskReply(id)

\* the metrics files of a registered project change on disk
DiskChange ==
  /\ nchanges < MaxChanges
  /\ \E content \in MetricsContents \ {disk[1]} : disk' = [disk EXCEPT ![1] = content]
  /\ nchanges' = nchanges + 1
  /\ UNCHANGED <<table, cache, reqs, handled, tasks, replies, parsed, access, WorkerIdle>>

\* a caller gives up and drops the receiver of a request not yet answered
DropReceiver ==
  /\ Cardinality({id \in ReqIds : replies[id].tag = "dropped"}) < MaxDrops
  /\ \E id \in 1..Len(reqs) :
       /\ reqs[id].kind # "RefreshCache"
       /\ replies[id].tag = "none"
       /\ replies' = [replies EXCEPT ![id] = Dropped]
  /\ UNCHANGED <<table, cache, reqs, handled, tasks, disk, nchanges, parsed, access,
                 WorkerIdle>>

\* WorkerPool::run
Handle ==
  \/ HandleGetProjects
  \/ HandleGetProjectMetrics
  \/ HandleGetAllProjects
  \/ HandleRefreshCache

(***************************************************************************)
(* Specifications.                                                         *)
(***************************************************************************)
\* the sharded cache under saves, crashes and loads
NextCrash ==
  \/ StartSaveBinary
  \/ SaveBinarySteps
  \/ Crash
  \/ LoadBinary

SpecCrash == Init /\ [][NextCrash]_vars

\* the sharded cache under saves, loads and outside damage to record files
NextCache ==
  \/ StartSaveBinary
  \/ SaveBinarySteps
  \/ LoadBinary
  \/ Tamper

SpecCache == Init /\ [][NextCache]_vars

\* the engine over both cache formats, with projects coming and going
NextEngine ==
  \/ StartGetProjects
  \/ Discover
  \/ SaveBinarySteps
  \/ SnapSteps
  \/ MarkerChange
  \/ DropShardedCache
  \/ LoadSnapshot

SpecEngine == Init /\ [][NextEngine]_vars

\* readers of both cache formats while the engine writes them and the top files get damaged
NextLoad ==
  \/ StartGetProjects
  \/ Discover
  \/ SaveBinarySteps
  \/ SnapSteps
  \/ LoadBinary
  \/ LoadSnapshot
  \/ DamageTop

SpecLoad == Init /\ [][NextLoad]_vars

\* the discover, remove and refresh commands run one after another
NextCli ==
  \/ StartGetProjects
  \/ Discover
  \/ SaveBinarySteps
  \/ SnapSteps
  \/ StartRemove
  \/ StartRefresh
  \/ CliSteps
  \/ MarkerChange

SpecCli == Init /\ [][NextCli]_vars

\* an engine and a CacheManager writing the same snapshot path, and a reader
NextRace ==
  \/ StartGetProjects
  \/ Discover
  \/ SaveBinarySteps
  \/ SnapSteps
  \/ ManagerSteps
  \/ LoadSnapshot

SpecRace == Init /\ [][NextRace]_vars

\* the CacheManager alone: queue_save calls and its cache_worker
SpecManager == Init /\ [][ManagerSteps]_vars

\* the runtime keeps running cache_worker: a received request and the 100 ms
\* sleep both complete, and save_cache's calls return
SpecManagerFair ==
  /\ Init
  /\ [][ManagerSteps]_vars
  /\ WF_vars(MgrRecv \/ MgrTimeout \/ MgrSnapOpen \/ MgrSnapWrite \/ MgrSnapRename)

(***************************************************************************)
(* ResponseCache (data_layer/cache.rs 19-46) under any sequence of calls.  *)
(***************************************************************************)
CacheKeys == {ProjectList, ProjectMetrics(NameOf(1)), AllProjectsAggregate}

\* serialized replies a client may insert
SomeBytes == {<<"b1">>, <<"b2">>}

Call(what, key, bytes, result) ==
  [op |-> what, key |-> key, bytes |-> bytes, result |-> result]

RcIdle == <<cacheVars, mgrVars, walk, table, reqs, handled, tasks, replies, disk, nchanges,
            parsed, access>>

\* cache.insert(key, bytes)
RcInsert ==
  /\ Len(calls) < MaxCalls
  /\ \E key \in CacheKeys, bytes \in SomeBytes :
       /\ cache' = CacheInsert(cache, key, bytes)
       /\ calls' = Append(calls, Call("insert", key, bytes, NoResult))
  /\ UNCHANGED RcIdle

\* cache.get(&key)
RcGet ==
  /\ Len(calls) < MaxCalls
  /\ \E key \in CacheKeys :
       calls' = Append(calls, Call("get", key, <<>>, CacheGet(cache, key)))
  /\ UNCHANGED <<cache, RcIdle>>

\* cache.invalidate(&key)
RcInvalidate ==
  /\ Len(calls) < MaxCalls
  /\ \E key \in CacheKeys :
       /\ cache' = CacheInvalidate(cache, key)
       /\ calls' = Append(calls, Call("invalidate", key, <<>>, NoResult))
  /\ UNCHANGED RcIdle

\* cache.clear()
RcClear ==
  /\ Len(calls) < MaxCalls
  /\ cache' = CacheClear(cache)
  /\ calls' = Append(calls, Call("clear", ProjectList, <<>>, NoResult))
  /\ UNCHANGED RcIdle

NextResponseCache ==
  \/ RcInsert
  \/ RcGet
  \/ RcInvalidate
  \/ RcClear

SpecResponseCache == Init /\ [][NextResponseCache]_vars

\* the request worker, its load tasks, the clients and the metrics files
NextWorker ==
  \/ Enqueue
  \/ Handle
  \/ \E id \in ReqIds : TaskStep(id)
  \/ DiskChange

SpecWorker == Init /\ [][NextWorker]_vars

\* the worker with callers that may abandon a request
NextWorkerDrop ==
  \/ NextWorker
  \/ DropReceiver

SpecWorkerDrop ==
  /\ Init
  /\ [][NextWorkerDrop]_vars
  /\ WF_vars(Handle)
  /\ \A id \in ReqIds : WF_vars(TaskStep(id))

\* one scan of one root
SpecWalk == InitWalk /\ [][Walk]_vars

\* one call of discover_projects with one or more configured roots
SpecDiscover == InitDiscover /\ [][DiscoverAll]_vars

\* one call of the scanner on a tree that holds symbolic links
SpecWalkLinks == InitWalkLinks /\ [][Walk]_vars

\* run() keeps dequeuing and the runtime keeps running every spawned task
SpecWorkerFair ==
  /\ Init
  /\ [][NextWorker]_vars
  /\ WF_vars(Handle)
  /\ \A id \in ReqIds : WF_vars(TaskStep(id))

(***************************************************************************)
(* Claims about the sharded cache.                                         *)
(***************************************************************************)
SaveFinishedOk == pc = "idle" /\ op = "save_binary" /\ ret.tag = "ok"

\* C1: during save_binary_cache every per-record file write attempt, failed or
\* not, comes before the index write: once the index files have been touched
\* every record has had its attempt and no record file is modified any more,
\* and the index write is the last file modification of a save that returns Ok.
C1_IndexWrittenLast ==
  /\ (op = "save_binary" /\ oplog.idx) =>
        (oplog.rec = 1..Len(arg) /\ oplog.last = "idx")
  /\ SaveFinishedOk => (oplog.idx /\ oplog.last = "idx")

C1_Witness == SaveFinishedOk /\ Len(arg) = 2 /\ ioFailed

EntriesWithFile(entries, files) ==
  {k \in 1..Len(entries) : files[Sanitize(entries[k].name)].st = "full"}

\* C2 as stated: after a crash before the index rename, load_binary_cache
\* succeeds and returns one record for every entry of the index committed by
\* the previous completed save.
C2_OneRecordPerCommittedEntry ==
  (interrupted /\ committed.valid /\ loaded # NoResult) =>
     /\ loaded.tag = "ok"
     /\ index = Full(committed.index)
     /\ Len(loaded.v) = Len(committed.index)

\* C2, amended: after a crash before the index rename, load_binary_cache
\* succeeds, the index is the committed one unchanged, every record file that
\* existed when the previous save completed is still complete, no record file
\* is partial, and the load returns one record for every entry whose record
\* file exists (entries whose record write had failed are returned only if
\* the interrupted save wrote them).
C2_CrashKeepsCommitted ==
  (interrupted /\ committed.valid /\ loaded # NoResult) =>
     /\ loaded.tag = "ok"
     /\ index = Full(committed.index)
     /\ \A s \in SafeNames : recs[s].st \in {"absent", "full"}
     /\ EntriesWithFile(committed.index, committed.recs)
           \subseteq EntriesWithFile(committed.index, recs)
     /\ Len(loaded.v) = Cardinality(EntriesWithFile(committed.index, recs))

C2_Witness ==
  /\ interrupted
  /\ committed.valid
  /\ loaded.tag = "ok"
  /\ Len(loaded.v) = 2
  /\ recs # committed.recs

\* C7: save_binary_cache followed by load_binary_cache returns records whose
\* set of names is the set of names saved, with statistics and workflow_state
\* absent (stated for saves in which no file operation failed).
C7_RoundTripNames ==
  (SaveFinishedOk /\ ~ioFailed /\ loaded # NoResult) =>
     /\ loaded.tag = "ok"
     /\ NameSet(loaded.v) = NameSet(arg)
     /\ \A k \in 1..Len(loaded.v) : loaded.v[k].stats = None /\ loaded.v[k].ws = None

\* the j-th smallest element of a set of numbers
Kth(S, j) == CHOOSE x \in S : Cardinality({y \in S : y < x}) = j - 1

\* C9: with a valid index of N entries, k of whose record files are missing or
\* undecodable, load_binary_cache returns Ok with exactly the N-k records whose
\* files are readable, in index order.
C9_LoadSkipsUnreadable ==
  (loaded # NoResult /\ index.st = "full") =>
     LET readable == EntriesWithFile(index.v, recs)
     IN /\ loaded.tag = "ok"
        /\ Len(loaded.v) = Cardinality(readable)
        /\ \A j \in 1..Len(loaded.v) :
              loaded.v[j] = recs[Sanitize(index.v[Kth(readable, j)].name)].v[1]

C9_Witness ==
  /\ loaded.tag = "ok"
  /\ Len(index.v) = 2
  /\ Len(loaded.v) = 1
  /\ loaded.v[1].name = index.v[2].name
  /\ \E s \in SafeNames : recs[s].st = "garbage"

(***************************************************************************)
(* Claims about the engine.                                                *)
(***************************************************************************)
ScanReturnedOk == pc = "idle" /\ op = "scan" /\ ret.tag = "ok"

\* C10: whenever the engine scans (forced, or with neither cache present) and
\* returns Ok, the index and the snapshot file have both been rewritten by
\* that call and both list exactly the names of the returned records.
C10_ScanWritesBothCaches ==
  ScanReturnedOk =>
     /\ oplog.idx /\ oplog.snap
     /\ index.st = "full" /\ NamesOf(index.v) = NamesOf(ret.v)
     /\ snap.st = "full" /\ NamesOf(snap.v) = NamesOf(ret.v)

C10_Witness ==
  /\ ScanReturnedOk
  /\ Len(ret.v) = 2
  /\ nops = 2
  /\ ioFailed

\* C8: a load that runs concurrently with saves, a CacheManager save
\* overlapping an engine save of the same snapshot path included, reads the
\* snapshot, the index and every record file as complete or absent, never as
\* partial or mixed content.
C8_NoTornRead ==
  /\ snapLoaded.tag # "err"
  /\ snap.st \in {"absent", "full"}
  /\ index.st \in {"absent", "full"}
  /\ \A s \in SafeNames : recs[s].st \in {"absent", "full"}

\* equality of two replies, the variant first
SameReply(a, b) == a.tag = b.tag /\ a.v = b.v

Replied(id) == replies[id].tag \notin {"none", "dropped"}

TableAccess == {a \in access : a.what \in {"table_read", "table_write"}}

\* C3 as stated: every read and every write of the live project table is made
\* by the worker task itself while it processes a dequeued request; no other
\* task, a background statistics load included, reads or writes the table.
C3_OnlyWorkerTouchesTable ==
  \A a \in TableAccess : a.who = "worker" /\ a.req <= handled

\* C3 amended: every table access belongs to a dequeued request and is made
\* under the table lock either by the worker handling GetProjects or
\* GetAllProjects (a read) or by the load task spawned for GetProjectMetrics
\* (a read, and a write only for a name in the table); a write sets only the
\* statistics of a record: the table keeps its records, their order and
\* every other field.
C3_TableAccessUnderLock ==
  /\ \A a \in TableAccess :
       /\ a.req <= handled
       /\ a.who = "worker" =>
            (a.what = "table_read" /\ reqs[a.req].kind \in {"GetProjects", "GetAllProjects"})
       /\ a.who = "task" => reqs[a.req].kind = "GetProjectMetrics"
       /\ a.what = "table_write" =>
            (a.who = "task" /\ reqs[a.req].name \in NameSet(PoolTable))
  /\ Len(table) = Len(PoolTable)
  /\ \A k \in 1..Len(table) : [table[k] EXCEPT !.stats = None] = PoolTable[k]

C3_Witness ==
  /\ \E a \in TableAccess : a.who = "worker"
  /\ \E a \in TableAccess : a.who = "task" /\ a.what = "table_write"
  /\ table # PoolTable

Unregistered(id) ==
  /\ id <= Len(reqs)
  /\ reqs[id].kind = "GetProjectMetrics"
  /\ reqs[id].name \notin NameSet(PoolTable)

\* C4: GetProjectMetrics(name) for a name that is not in the table is always
\* answered Err(ProjectNotFound(name)), also when duplicates are in flight
\* together; no step of such a request changes the table or the
\* ResponseCache, and the cache never holds an entry for that name.
C4_NotFoundLeavesNoTrace ==
  /\ [](/\ \A id \in ReqIds :
             (Unregistered(id) /\ Replied(id)) =>
                SameReply(replies[id], ProjectNotFound(reqs[id].name))
        /\ \A name \in ReqNames \ NameSet(PoolTable) :
             ProjectMetrics(name) \notin DOMAIN cache)
  /\ [][\A id \in ReqIds :
          (Unregistered(id) /\ tasks'[id] # tasks[id]) =>
             (table' = table /\ cache' = cache)]_vars

\* two duplicates for an unregistered name overlapped: the later request is
\* answered while the earlier one's load is still running
C4_Witness ==
  \E id1, id2 \in ReqIds :
     /\ id1 < id2
     /\ Unregistered(id1)
     /\ Unregistered(id2)
     /\ reqs[id1].name = reqs[id2].name
     /\ tasks[id1].pc = "reply"
     /\ SameReply(replies[id2], ProjectNotFound(reqs[id2].name))

\* two handled GetProjects requests with no RefreshCache between them
ListPair(id1, id2) ==
  /\ id1 < id2
  /\ id2 <= handled
  /\ reqs[id1].kind = "GetProjects"
  /\ reqs[id2].kind = "GetProjects"
  /\ \A k \in (id1 + 1)..(id2 - 1) : reqs[k].kind # "RefreshCache"

\* C5: two GetProjects requests with no RefreshCache processed between them
\* get identical payloads, and the second is answered from the ResponseCache:
\* it reads neither the project table nor the filesystem.
C5_ListCacheHit ==
  \A id1, id2 \in ReqIds :
     ListPair(id1, id2) =>
        /\ replies[id2].tag = "bytes"
        /\ SameReply(replies[id1], replies[id2])
        /\ \A a \in access : a.req # id2

\* the two listings agree although a statistics load changed the table between them
C5_Witness ==
  /\ ListPair(1, 3)
  /\ reqs[2].kind = "GetProjectMetrics"
  /\ table # PoolTable

\* two GetProjectMetrics requests for one registered name, both sent before
\* any parse of that project's metrics has returned
MetricsPair(id1, id2) ==
  /\ id1 < id2
  /\ id2 <= Len(reqs)
  /\ reqs[id1].kind = "GetProjectMetrics"
  /\ reqs[id2].kind = "GetProjectMetrics"
  /\ reqs[id1].name = reqs[id2].name
  /\ reqs[id1].name \in NameSet(PoolTable)
  /\ reqs[id1].early
  /\ reqs[id2].early

BothReplied(id1, id2) == Replied(id1) /\ Replied(id2)

\* C6 as stated: two GetProjectMetrics(x) requests for a registered x, both
\* enqueued before the first disk parse completes, both eventually receive Ok
\* replies with identical payloads.  (A request and its reply stay once they
\* are there, so "eventually" is "from some point on".)
C6_BothOkIdentical ==
  <>[](\A id1, id2 \in ReqIds :
         MetricsPair(id1, id2) =>
            /\ replies[id1].tag = "ok"
            /\ replies[id2].tag = "ok"
            /\ SameReply(replies[id1], replies[id2]))

\* every parse of one project's metrics so far read the same content
ParsesAgree == \A q1, q2 \in parsed : q1.name = q2.name => q1.content = q2.content

\* C6 amended: both requests eventually receive a reply, each Ok or the
\* ParseError of its own parse; the two replies are identical provided every
\* parse of x's metrics so far returned the same result (the files did not
\* change between the redundant parses).
C6_BothRepliedSameIfParsesAgree ==
  /\ <>[](\A id1, id2 \in ReqIds : MetricsPair(id1, id2) => BothReplied(id1, id2))
  /\ [](\A id1, id2 \in ReqIds :
          (MetricsPair(id1, id2) /\ BothReplied(id1, id2)) =>
             /\ \A id \in {id1, id2} :
                  \/ replies[id].tag = "ok"
                  \/ SameReply(replies[id], ParseMetrics("corrupt"))
             /\ ParsesAgree => SameReply(replies[id1], replies[id2]))

\* both loads parsed the files themselves and both requests got the same Ok reply
C6_Witness ==
  /\ MetricsPair(1, 2)
  /\ [who |-> "task", what |-> "disk_read", req |-> 1] \in access
  /\ [who |-> "task", what |-> "disk_read", req |-> 2] \in access
  /\ replies[1].tag = "ok"
  /\ SameReply(replies[1], replies[2])

\* the route get_projects(false) takes in the current state
CachedRoute == EngineRoute(FALSE, LoadBinaryCache(index, recs), LoadCache(snap))

\* get_projects has just returned from its cache-only path
ServedFromCache == op = "cached" /\ pc = "idle"

\* C11: with a sharded index present, get_projects(false) returns what
\* load_binary_cache returns, does not scan and writes neither cache: the
\* step leaves every cache file as it was, whatever the markers on disk are.
C11_CachedReadOnly ==
  /\ [](index.st # "absent" =>
          /\ CachedRoute.op = "cached"
          /\ CachedRoute.pc = "idle"
          /\ CachedRoute.ret.tag = LoadBinaryCache(index, recs).tag
          /\ CachedRoute.ret.v = LoadBinaryCache(index, recs).v)
  /\ [](ServedFromCache => oplog = NoLog)
  /\ [][(nops' # nops /\ op' = "cached") =>
          UNCHANGED <<index, indexTmp, recs, recTmp, snap, snapTmp, markers>>]_vars

\* a cached answer that no longer matches the markers on disk
C11_Witness ==
  /\ ServedFromCache
  /\ index.st = "full"
  /\ ret.tag = "ok"
  /\ {ret.v[k].path : k \in 1..Len(ret.v)} # markers

\* C12 as stated: get_projects(false) with no sharded index but a valid
\* snapshot returns the snapshot's records and writes them to the sharded
\* cache, so that the next get_projects(false) is served from the sharded
\* cache with the same set of names (here: when no file operation failed).
C12_MigrationServesSameNames ==
  (op = "migrate" /\ pc = "idle" /\ ret.tag = "ok" /\ ~ioFailed) =>
     /\ snap.st = "full"
     /\ ret.v = snap.v
     /\ CachedRoute.op = "cached"
     /\ CachedRoute.ret.tag = "ok"
     /\ NameSet(CachedRoute.ret.v) = NameSet(ret.v)

\* the names on the path of the marker of a found project directory
ExcludedOnPath(path, exclusions) == \E k \in 1..Len(path) : path[k] \in exclusions

\* C13: find_hegel_directories never returns a project whose marker path,
\* from the scanned root down, has a directory named exactly as an exclusion,
\* at any depth; nothing at or below an excluded directory is visited.
C13_ExclusionsPruned ==
  walk.pc = "done" =>
     /\ \A d \in walk.found : ~ExcludedOnPath(Append(d, Marker), walk.exclusions)
     /\ \A v \in walk.visited : ~ExcludedOnPath(v, walk.exclusions)
     /\ walk.found \subseteq {d \in walk.dirs : Append(d, Marker) \in walk.dirs}

\* one project is found although another one lies two levels below an excluded directory
C13_Witness ==
  /\ walk.pc = "done"
  /\ walk.found # {}
  /\ \E d \in walk.dirs :
       /\ Len(d) = MaxDirDepth
       /\ Append(d, Marker) \in walk.dirs
       /\ d[Len(d) - 1] \in walk.exclusions
       /\ d \notin walk.found

\* the worker handles a RefreshCache request in this step
RefreshStep == handled' = handled + 1 /\ reqs[handled + 1].kind = "RefreshCache"

\* the keys handle_refresh_cache is to remove for a request
RefreshedKeys(r) ==
  IF r.name = <<>> THEN {ProjectList, AllProjectsAggregate} ELSE {ProjectMetrics(r.name)}

\* C14: RefreshCache(None) removes exactly the Listing and Aggregate entries
\* and keeps every Metrics(name) entry; RefreshCache(Some(name)) removes
\* exactly Metrics(name); neither changes the table or a durable cache file.
C14_RefreshRemovesExactly ==
  [][RefreshStep =>
       /\ DOMAIN cache' = DOMAIN cache \ RefreshedKeys(reqs[handled + 1])
       /\ \A key \in DOMAIN cache' : cache'[key] = cache[key]
       /\ UNCHANGED <<table, index, indexTmp, recs, recTmp, snap, snapTmp>>]_vars

\* a global refresh was handled after a listing and a metrics reply were cached
C14_Witness ==
  /\ handled = 3
  /\ reqs[1].kind = "GetProjectMetrics"
  /\ reqs[2].kind = "GetProjects"
  /\ reqs[3].kind = "RefreshCache"
  /\ reqs[3].name = <<>>
  /\ ProjectMetrics(reqs[1].name) \in DOMAIN cache
  /\ ProjectList \notin DOMAIN cache

\* the worker handles a GetAllProjects request in this step and misses the cache
AggregateMissStep ==
  /\ handled' = handled + 1
  /\ reqs[handled + 1].kind = "GetAllProjects"
  /\ AllProjectsAggregate \notin DOMAIN cache

\* positions of the table records whose statistics are present
LoadedRecords(tbl) == {k \in 1..Len(tbl) : tbl[k].stats # None}

RECURSIVE TokensOver(_, _)
TokensOver(tbl, S) ==
  IF S = {} THEN 0
  ELSE LET k == CHOOSE x \in S : TRUE
       IN TokensOf(tbl[k].stats) + TokensOver(tbl, S \ {k})

\* C15: on a ResponseCache miss the GetAggregate totals are the sums over
\* exactly the table records whose statistics are present at that moment,
\* total_projects is the size of the whole table, and handling the request
\* loads no statistics (no file is read) and leaves the table unchanged.
C15_AggregateOverLoaded ==
  [][AggregateMissStep =>
       /\ replies'[handled + 1].tag = "bytes"
       /\ replies'[handled + 1].v.total_projects = Len(table)
       /\ replies'[handled + 1].v.total_all_tokens = TokensOver(table, LoadedRecords(table))
       /\ cache'[AllProjectsAggregate] = replies'[handled + 1].v
       /\ access' \ access = {[who |-> "worker", what |-> "table_read", req |-> handled + 1]}
       /\ UNCHANGED <<table, tasks, parsed>>]_vars

\* an aggregate computed while one of the two records had statistics
C15_Witness ==
  \E id \in 1..handled :
     /\ reqs[id].kind = "GetAllProjects"
     /\ [who |-> "worker", what |-> "table_read", req |-> id] \in access
     /\ replies[id].v.total_projects = Len(PoolTable)
     /\ replies[id].v.total_all_tokens > 0
     /\ LoadedRecords(table) # 1..Len(table)

\* C16: a reply whose receiver was dropped is discarded and nothing else
\* happens: the worker loop goes on to dequeue every request, and every
\* request whose caller still waits is answered.  (Requests and replies stay
\* once they are there, so "eventually" is "from some point on".)
C16_DroppedReceiverIgnored ==
  <>[](/\ handled = Len(reqs)
       /\ \A id \in 1..Len(reqs) :
            (reqs[id].kind # "RefreshCache" /\ replies[id].tag # "dropped") => Replied(id))

\* a listing reply was sent to a dropped receiver, and a later request was answered
C16_Witness ==
  \E id1, id2 \in 1..handled :
     /\ id1 < id2
     /\ reqs[id1].kind = "GetProjects"
     /\ replies[id1].tag = "dropped"
     /\ Replied(id2)

\* a load task is inside parse_unified_metrics
ParseInProgress == \E id \in ReqIds : tasks[id].pc = "parse"

\* C17: while a statistics parse is in progress the table is not locked and
\* the worker is not held up: whenever a request waits in the queue the
\* worker can take it, a GetProjects or GetAggregate that reads the table
\* included, before the parse finishes.
C17_WorkerNotBlockedByParse ==
  (ParseInProgress /\ handled < Len(reqs)) => ENABLED Handle

\* a listing or aggregate sent after a GetProjectMetrics was computed from
\* the table and answered while that request's parse is still running
C17_Witness ==
  \E id1, id2 \in 1..handled :
     /\ id1 < id2
     /\ reqs[id1].kind = "GetProjectMetrics"
     /\ tasks[id1].pc = "parse"
     /\ reqs[id2].kind \in {"GetProjects", "GetAllProjects"}
     /\ [who |-> "worker", what |-> "table_read", req |-> id2] \in access
     /\ Replied(id2)

\* the table has been read for request id
HasRead(id) == \E a \in access : a.what = "table_read" /\ a.req = id

\* C18 as stated: of two requests, the table is read for the one enqueued
\* first before it is read for the other: no request has had its read while
\* the read of an earlier request is still to come.
C18_ReadsInEnqueueOrder ==
  \A id1, id2 \in ReqIds :
     (id1 < id2 /\ HasRead(id2)) => tasks[id1].pc # "find"

\* C18 amended: requests are dequeued in the order they were enqueued, and
\* the worker reads the table for a GetProjects or GetAllProjects request
\* while it handles it, at the head of the queue, so these reads happen in
\* enqueue order; the table read of a GetProjectMetrics request is made by
\* its load task at any time after the request was dequeued, possibly after
\* the read of a later request.
C18_WorkerReadsAtQueueHead ==
  [][\A a \in access' \ access :
       a.what = "table_read" =>
          /\ a.who = "worker" =>
               /\ a.req = handled + 1
               /\ handled' = handled + 1
               /\ reqs[a.req].kind \in {"GetProjects", "GetAllProjects"}
          /\ a.who = "task" =>
               /\ a.req <= handled
               /\ reqs[a.req].kind = "GetProjectMetrics"]_vars

\* the table was read for a later request while an earlier one's read is pending
C18_Witness ==
  \E id1, id2 \in ReqIds :
     /\ id1 < id2
     /\ tasks[id1].pc = "find"
     /\ [who |-> "worker", what |-> "table_read", req |-> id2] \in access


(***************************************************************************)
(* C19: remove_from_cache(name) returns true exactly when the index held   *)
(* an entry named name; then the new index is the old one without that     *)
(* entry, the other entries are unchanged and every other project that     *)
(* load_binary_cache returned before is still returned; when it returns    *)
(* false the index and all record files are unchanged.                     *)
(***************************************************************************)
RemoveReturned == op = "remove" /\ pc = "idle" /\ ret.tag = "ok" /\ ~ioFailed

LoadedBefore == LoadBinaryCache(arg.files.index, arg.files.recs)

LoadedNow == LoadBinaryCache(index, recs)

C19_RemoveFrame ==
  RemoveReturned =>
    /\ ret.v = (arg.name \in NameSet(arg.old))
    /\ ret.v =>
         /\ index = Full(Retain(arg.old, arg.name))
         /\ LoadedBefore.tag = "ok" =>
              /\ LoadedNow.tag = "ok"
              /\ \A k \in 1..Len(LoadedBefore.v) :
                   LoadedBefore.v[k].name # arg.name =>
                     \E j \in 1..Len(LoadedNow.v) : LoadedNow.v[j] = LoadedBefore.v[k]
    /\ ~ret.v => (index = arg.files.index /\ recs = arg.files.recs)

(***************************************************************************)
(* C20: refresh_project(name) fails with one error when there is no index, *)
(* another when the index has no entry of that name, a third when the      *)
(* marker directory is missing at the cached path; in each case the index  *)
(* and every record file are as they were, so a project whose marker has   *)
(* disappeared is still in the cache.                                      *)
(***************************************************************************)
RefreshCalled == nops' # nops /\ op' = "refresh"

RefreshFailedWith(e) == op = "refresh" /\ pc = "idle" /\ ret.tag = "err" /\ ret = e

C20_RefreshErrorsLeaveCache ==
  /\ [][RefreshCalled =>
          LET idx == ReadIndex(index)
              k == IF idx.tag = "ok" THEN FindEntry(idx.v, arg'.name) ELSE 0
          IN /\ (pc' = "idle" /\ ret' = NoCacheFound) <=> idx.tag = "nocache"
             /\ (pc' = "idle" /\ ret' = NotInCache) <=> (idx.tag = "ok" /\ k = 0)
             /\ (pc' = "idle" /\ ret' = NotAtCachedPath) <=>
                  (idx.tag = "ok" /\ k # 0 /\ idx.v[IF k = 0 THEN 1 ELSE k].path \notin markers)
             /\ pc' = "idle" => UNCHANGED <<index, indexTmp, recs, recTmp>>]_vars
  /\ [](\A e \in {NoCacheFound, NotInCache, NotAtCachedPath} :
          RefreshFailedWith(e) =>
            /\ index = arg.files.index
            /\ recs = arg.files.recs
            /\ oplog = NoLog)
  /\ [](RefreshFailedWith(NotAtCachedPath) =>
          (index.st = "full" /\ arg.name \in NameSet(index.v)))

C20_Witness ==
  /\ RefreshFailedWith(NotAtCachedPath)
  /\ index.st = "full"
  /\ \E k \in 1..Len(index.v) :
       index.v[k].name = arg.name /\ index.v[k].path \notin markers

(***************************************************************************)
(* C21: save_binary_cache returns Ok whenever its index write succeeds,    *)
(* however many record writes failed, and returns an error whenever the    *)
(* index write fails.                                                      *)
(***************************************************************************)
C21_OkFollowsIndexWrite ==
  [][(op = "save_binary" /\ pc # "idle" /\ pc' = "idle" /\ ret'.tag # "none") =>
       /\ pc = "idx_rename" => (ret' = Ok(<<>>) /\ index' = Full(IndexOf(arg)))
       /\ pc = "idx_open" => ret' = Err("index")
       /\ ret'.tag = "ok" => pc = "idx_rename"
       /\ pc \notin {"rec_open", "rec_write", "rec_rename"}]_vars

C21_Witness ==
  /\ SaveFinishedOk
  /\ Len(arg) = MaxProjects
  /\ oplog.failed = 1..Len(arg)
  /\ index = Full(IndexOf(arg))

(***************************************************************************)
(* C30: after save_binary_cache returns Ok, every entry of the written     *)
(* index has a record file that was successfully written.                  *)
(***************************************************************************)
C30_EveryEntryHasRecordFile ==
  SaveFinishedOk =>
    \A k \in 1..Len(index.v) : recs[Sanitize(index.v[k].name)].st = "full"

\* C30 as amended: after save_binary_cache returns Ok the index names every
\* project passed in, and every entry whose write_project did not fail has a
\* record file written by this call under its sanitized name; an entry whose
\* write failed is in the index all the same.
C30_EntriesNotSkippedHaveRecordFile ==
  SaveFinishedOk =>
    /\ index = Full(IndexOf(arg))
    /\ \A k \in 1..Len(arg) :
         k \notin oplog.failed =>
           \E j \in 1..Len(arg) :
             /\ j \notin oplog.failed
             /\ Sanitize(arg[j].name) = Sanitize(arg[k].name)
             /\ recs[Sanitize(arg[k].name)] = Full(<<StripHeavy(arg[j])>>)

C30_Witness ==
  /\ SaveFinishedOk
  /\ \E k \in 1..Len(arg) :
       /\ k \in oplog.failed
       /\ recs[Sanitize(arg[k].name)].st = "absent"
  /\ \E k \in 1..Len(arg) :
       /\ k \notin oplog.failed
       /\ recs[Sanitize(arg[k].name)].st = "full"

(***************************************************************************)
(* C22: load_cache and load_binary_cache return Ok(None), not an error,    *)
(* when the snapshot file (the index file) is absent, and an error that    *)
(* carries no projects when that file is present but does not decode.      *)
(***************************************************************************)
C22_AbsentIsNoneCorruptIsError ==
  [][/\ (loaded = NoResult /\ loaded'.tag # "none") =>
          /\ index.st = "absent" => loaded' = NoCache
          /\ index.st \in {"partial", "garbage"} => loaded' = Err("index")
          /\ loaded'.tag \in {"nocache", "err"} => index.st # "full"
     /\ (snapLoaded'.tag # snapLoaded.tag) =>
          /\ snap.st = "absent" => snapLoaded' = NoCache
          /\ snap.st \in {"partial", "garbage"} => snapLoaded' = Err("snapshot")
          /\ snapLoaded'.tag \in {"nocache", "err"} => snap.st # "full"]_vars

C22_Witness ==
  /\ loaded.tag = "err"
  /\ index.st \in {"partial", "garbage"}
  /\ \E s \in SafeNames : recs[s].st = "full"
  /\ snapLoaded.tag = "err"
  /\ snap.st \in {"partial", "garbage"}

(***************************************************************************)
(* C23: discover_projects returns one record for every marker found, also  *)
(* when some state files are corrupt; a record has error set exactly when  *)
(* loading its state failed, and then it has no workflow_state.            *)
(***************************************************************************)
C23_OneRecordPerMarker ==
  [][(pc = "discover" /\ pc' = "sb_mkdir") =>
       /\ Len(arg') = Cardinality(markers)
       /\ {arg'[k].path : k \in 1..Len(arg')} = markers
       /\ \A k \in 1..Len(arg') :
            /\ arg'[k].err # None <=> StateFileOf(arg'[k].path) = "corrupt"
            /\ arg'[k].ws # None <=> StateFileOf(arg'[k].path) = "valid"
            /\ arg'[k].err # None => arg'[k].ws = None]_vars

C23_Witness ==
  /\ op = "scan"
  /\ pc = "sb_mkdir"
  /\ \E k \in 1..Len(arg) : arg[k].err # None /\ arg[k].ws = None
  /\ \E k \in 1..Len(arg) : arg[k].err = None /\ arg[k].ws # None
  /\ \E k \in 1..Len(arg) : arg[k].err = None /\ arg[k].ws = None

C25_LinksNotFollowed ==
  walk.pc = "done" =>
    /\ walk.found =
         FindHegelDirectories(walk.dirs, {}, walk.max_depth, walk.exclusions).found
    /\ walk.found \subseteq walk.dirs
    /\ \A l \in walk.links, v \in walk.visited :
         ~(Len(v) > Len(l.at) /\ SubSeq(v, 1, Len(l.at)) = l.at)

\* a link to a project directory was yielded by the walk and the project found once
C25_Witness ==
  /\ walk.pc = "done"
  /\ \E l \in walk.links :
       /\ l.at \in walk.visited
       /\ l.to \in walk.found
       /\ Len(l.at) < walk.max_depth

(***************************************************************************)
(* C26: for every key, ResponseCache::get returns the bytes of the most    *)
(* recent insert for that key that was not followed by an invalidate of    *)
(* that key or a clear, and None otherwise; insert and invalidate on one   *)
(* key never change the entry of another key.                              *)
(***************************************************************************)
C26_GetReturnsLastInsert ==
  /\ [](\A n \in 1..Len(calls) :
          calls[n].op = "get" =>
            LET writes == {m \in 1..(n - 1) :
                             \/ calls[m].op = "clear"
                             \/ (calls[m].op \in {"insert", "invalidate"}
                                   /\ calls[m].key = calls[n].key)}
                last == CHOOSE m \in writes : \A j \in writes : j <= m
            IN IF writes # {} /\ calls[last].op = "insert"
               THEN calls[n].result = Ok(calls[last].bytes)
               ELSE calls[n].result = NoResult)
  /\ [][(Len(calls') > Len(calls) /\ calls'[Len(calls')].op \in {"insert", "invalidate"}) =>
          \A key \in CacheKeys \ {calls'[Len(calls')].key} :
            CacheGet(cache', key) = CacheGet(cache, key)]_vars

\* a get after insert, insert again, and a get after insert, invalidate,
\* with another key's entry in the cache
C26_Witness ==
  /\ Len(calls) = MaxCalls
  /\ calls[1].op = "insert" /\ calls[1].key = ProjectList
  /\ calls[2].op = "insert" /\ calls[2].key = AllProjectsAggregate
  /\ calls[2].bytes # calls[1].bytes
  /\ calls[3].op = "invalidate" /\ calls[3].key = ProjectList
  /\ calls[4].op = "get" /\ calls[4].key = AllProjectsAggregate
  /\ calls[4].result = Ok(calls[2].bytes)

\* the stores made so far into the statistics of the record called name
WritesOf(name) ==
  {a \in access : a.what = "table_write" /\ reqs[a.req].name = name}

(***************************************************************************)
(* C27: each table record's statistics goes from absent to present at most *)
(* once per worker lifetime and is never overwritten afterwards;           *)
(* RefreshCache does not cause it to be written again.                     *)
(***************************************************************************)
C27_StatisticsWrittenOnce ==
  \A k \in 1..Len(table) : Cardinality(WritesOf(table[k].name)) <= 1

\* C27 as amended: a record's statistics, once present, never becomes absent,
\* and RefreshCache does not write the table; the field is stored by each load
\* task that read the table while it was absent (so concurrent misses for one
\* name store more than once), and a load that finds it present does not parse.
C27_StatisticsStoredByEarlyLoads ==
  /\ [][\A k \in 1..Len(table) : table[k].stats # None => table'[k].stats # None]_vars
  /\ [][RefreshStep => table' = table]_vars
  /\ [][table' # table =>
          \E id \in ReqIds :
            /\ tasks[id].pc = "store" /\ tasks'[id].pc = "reply"
            /\ table' = StoreStatistics(table, reqs[id].name, tasks[id].stats)]_vars
  /\ [][\A id \in ReqIds :
          (tasks[id].pc = "find" /\ tasks'[id].pc = "parse") =>
             table[FindProject(table, reqs[id].name)].stats = None]_vars

\* two loads stored the statistics of one record, from different file contents,
\* and a RefreshCache for it was handled
C27_Witness ==
  /\ Cardinality(WritesOf(NameOf(1))) = 2
  /\ Cardinality({q \in parsed : q.name = NameOf(1)}) = 2
  /\ table[FindProject(table, NameOf(1))].stats # None
  /\ \E id \in 1..handled : reqs[id].kind = "RefreshCache" /\ reqs[id].name = NameOf(1)

(***************************************************************************)
(* C28: after the worker is constructed, the set and order of the records  *)
(* in the live table and each record's name, paths, workflow_state and     *)
(* error never change under any sequence of requests; statistics is the    *)
(* only field ever modified.                                               *)
(***************************************************************************)
C28_OnlyStatisticsChanges ==
  /\ Len(table) = Len(PoolTable)
  /\ \A k \in 1..Len(table) : [table[k] EXCEPT !.stats = None] = PoolTable[k]

C28_Witness ==
  /\ handled = MaxReqs
  /\ \E k \in 1..Len(table) : table[k].stats # None /\ table[k].ws # None
  /\ \E id \in 1..Len(reqs) : reqs[id].kind = "RefreshCache"

\* the worker handles a GetProjectMetrics request that misses the ResponseCache
\* while the statistics of the named record are in the table
LoadedMissStep ==
  /\ handled' = handled + 1
  /\ NextReq.kind = "GetProjectMetrics"
  /\ ProjectMetrics(NextReq.name) \notin DOMAIN cache
  /\ FindProject(table, NextReq.name) # 0
  /\ table[FindProject(table, NextReq.name)].stats # None

(***************************************************************************)
(* C29: when GetProjectMetrics misses the ResponseCache but the project's  *)
(* statistics are already loaded, the worker serializes, caches and sends  *)
(* the reply within the handling of that request, before it dequeues the   *)
(* next request.                                                           *)
(***************************************************************************)
C29_LoadedMissRepliedInHandler ==
  [][LoadedMissStep =>
       /\ replies'[handled + 1].tag = "ok"
       /\ ProjectMetrics(NextReq.name) \in DOMAIN cache']_vars

\* C29 as amended: on such a miss the worker only spawns the load task and goes
\* on to the next request; the task, finding the statistics in the table,
\* serializes them without parsing or writing, and then caches and replies.
C29_LoadedMissServedByTask ==
  /\ [][LoadedMissStep =>
          /\ tasks'[handled + 1].pc = "find"
          /\ UNCHANGED <<cache, replies, table>>]_vars
  /\ [][\A id \in ReqIds :
          (/\ tasks[id].pc = "find"
           /\ tasks'[id].pc # "find"
           /\ FindProject(table, reqs[id].name) # 0
           /\ table[FindProject(table, reqs[id].name)].stats # None) =>
             /\ tasks'[id].pc = "reply"
             /\ tasks'[id].result =
                  Ok(ProjectInfo(reqs[id].name,
                                 table[FindProject(table, reqs[id].name)].stats,
                                 table[FindProject(table, reqs[id].name)].ws))
             /\ UNCHANGED <<table, cache, replies, parsed>>]_vars
  /\ [][\A id \in ReqIds :
          (tasks[id].pc = "reply" /\ tasks'[id].pc = "none" /\ tasks[id].result.tag = "ok") =>
             /\ cache'[ProjectMetrics(reqs[id].name)] = tasks[id].result.v
             /\ (replies[id].tag # "dropped" => replies'[id] = tasks[id].result)]_vars

\* a request served from the table by its task is still unanswered although
\* the worker has dequeued a later request
C29_Witness ==
  \E id \in ReqIds :
    /\ tasks[id].pc = "reply"
    /\ tasks[id].result.tag = "ok"
    /\ [who |-> "task", what |-> "disk_read", req |-> id] \notin access
    /\ replies[id].tag = "none"
    /\ handled > id

(***************************************************************************)
(* Claims C31..C40.                                                        *)
(***************************************************************************)
\* the worker handles RefreshCache(None) in this step
RefreshAllStep == RefreshStep /\ reqs[handled + 1].name = <<>>

(***************************************************************************)
(* C31: once an aggregate payload is cached, later statistics loads into   *)
(* the table do not change what GetAggregate returns: the payload stays    *)
(* byte-identical until RefreshCache(None) is processed, after which the   *)
(* next GetAggregate is recomputed from the table as it is then.           *)
(***************************************************************************)
C31_AggregateStaleUntilRefresh ==
  /\ [][(AllProjectsAggregate \in DOMAIN cache /\ ~RefreshAllStep) =>
          /\ AllProjectsAggregate \in DOMAIN cache'
          /\ cache'[AllProjectsAggregate] = cache[AllProjectsAggregate]]_vars
  /\ [][(/\ handled' = handled + 1
         /\ reqs[handled + 1].kind = "GetAllProjects"
         /\ AllProjectsAggregate \in DOMAIN cache) =>
          /\ replies'[handled + 1] = Bytes(cache[AllProjectsAggregate])
          /\ UNCHANGED <<table, access>>]_vars
  /\ [][RefreshAllStep => AllProjectsAggregate \notin DOMAIN cache']_vars
  /\ [][AggregateMissStep =>
          /\ replies'[handled + 1] = Bytes(AggregatePayload(table))
          /\ cache'[AllProjectsAggregate] = AggregatePayload(table)]_vars

\* a GetAggregate request was answered from the cache with a payload older
\* than the table: statistics were stored after the payload was computed
C31_Witness ==
  \E id \in 1..handled :
    /\ reqs[id].kind = "GetAllProjects"
    /\ [who |-> "worker", what |-> "table_read", req |-> id] \notin access
    /\ AllProjectsAggregate \in DOMAIN cache
    /\ replies[id] = Bytes(cache[AllProjectsAggregate])
    /\ cache[AllProjectsAggregate] # AggregatePayload(table)

\* cache_worker receives a queued list in this step
MgrRecvStep == mq # <<>> /\ mq' = Tail(mq)

(***************************************************************************)
(* C32: while the CacheManager worker holds a pending save, further queued *)
(* save requests are discarded without replacing it, and each pending save *)
(* results in exactly one write of the snapshot file.                      *)
(***************************************************************************)
C32_OneWritePerPending ==
  /\ [][(MgrRecvStep /\ pending.some) => pending' = pending]_vars
  /\ [](mpc = "wait" => mlog.written = mlog.saves)

\* C32 as amended: a list received while one is pending is discarded and the
\* pending one kept; every received list is discarded, pending, or passed to
\* save_cache exactly once; that call writes the snapshot once when it succeeds
\* and not at all when it fails, and a failed save is not tried again.
C32_OneSavePerPending ==
  /\ [][(MgrRecvStep /\ pending.some) =>
          /\ pending' = pending
          /\ mlog'.discarded = Append(mlog.discarded, Head(mq))
          /\ UNCHANGED <<snap, snapTmp, mpc, marg>>]_vars
  /\ [](Len(mlog.saves) + Len(mlog.discarded) + Len(mq) + (IF pending.some THEN 1 ELSE 0)
          = Len(mlog.queued))
  /\ [](Len(mlog.written) <= Len(mlog.saves))
  /\ [](mpc # "wait" =>
          /\ Len(mlog.written) < Len(mlog.saves)
          /\ marg = mlog.saves[Len(mlog.saves)])
  /\ [][mlog'.saves # mlog.saves =>
          /\ pending.some /\ ~pending'.some
          /\ mlog'.saves = Append(mlog.saves, pending.v)]_vars
  /\ [][mlog'.written # mlog.written =>
          /\ mpc = "s_rename" /\ mpc' = "wait"
          /\ mlog'.written = Append(mlog.written, marg)]_vars

\* a list was discarded while a different one was pending, and the pending one
\* was then written to the snapshot file, once
C32_Witness ==
  /\ mpc = "wait"
  /\ Len(mlog.saves) = 1
  /\ mlog.written = mlog.saves
  /\ Len(mlog.discarded) = 1
  /\ mlog.discarded[1] # mlog.saves[1]
  /\ snap = Full(mlog.saves[1])

\* the RefreshCache(Some(name)) requests handled so far after which no
\* GetProjectMetrics(name) request has been handled
LastRefreshes ==
  {r \in 1..handled :
     /\ reqs[r].kind = "RefreshCache"
     /\ reqs[r].name # <<>>
     /\ \A id \in (r + 1)..handled :
          ~(reqs[id].kind = "GetProjectMetrics" /\ reqs[id].name = reqs[r].name)}

(***************************************************************************)
(* C33: once the worker has processed RefreshCache(Some(name)), the        *)
(* ResponseCache holds no Metrics(name) entry until a GetProjectMetrics    *)
(* (name) request enqueued after that refresh has been handled: a load     *)
(* started by an earlier request never re-inserts the entry after the      *)
(* invalidation.                                                           *)
(***************************************************************************)
C33_NoEntryAfterRefresh ==
  \A r \in LastRefreshes : ProjectMetrics(reqs[r].name) \notin DOMAIN cache

\* C33 as amended: handling RefreshCache(Some(name)) leaves no Metrics(name)
\* entry; afterwards the entry appears only when the load task of a handled
\* GetProjectMetrics(name) request completes with Ok, so besides a request
\* handled after the refresh, a load still running when the refresh was handled
\* re-inserts it.
C33_EntryReturnsWithCompletedLoad ==
  /\ [][(RefreshStep /\ reqs[handled + 1].name # <<>>) =>
          ProjectMetrics(reqs[handled + 1].name) \notin DOMAIN cache']_vars
  /\ [][\A name \in ReqNames :
          (ProjectMetrics(name) \notin DOMAIN cache /\ ProjectMetrics(name) \in DOMAIN cache') =>
             \E id \in 1..handled :
               /\ reqs[id].kind = "GetProjectMetrics" /\ reqs[id].name = name
               /\ tasks[id].pc = "reply" /\ tasks'[id].pc = "none"
               /\ tasks[id].result = Ok(cache'[ProjectMetrics(name)])]_vars
  /\ [](\A id \in ReqIds :
          tasks[id].pc # "none" => id <= handled /\ reqs[id].kind = "GetProjectMetrics")
  /\ [](\A r \in LastRefreshes :
          ProjectMetrics(reqs[r].name) \in DOMAIN cache =>
            \E id \in 1..(r - 1) :
              /\ reqs[id].kind = "GetProjectMetrics" /\ reqs[id].name = reqs[r].name
              /\ replies[id] = Ok(cache[ProjectMetrics(reqs[r].name)]))

\* the entry is back after the refresh although no later request asked for it:
\* the load of an earlier request completed after the invalidation
C33_Witness ==
  \E r \in LastRefreshes :
    /\ ProjectMetrics(reqs[r].name) \in DOMAIN cache
    /\ \E id \in 1..(r - 1) :
         /\ reqs[id].kind = "GetProjectMetrics" /\ reqs[id].name = reqs[r].name
         /\ replies[id] = Ok(cache[ProjectMetrics(reqs[r].name)])

\* some load task for the named project is running
LoadInFlight(name) ==
  \E id \in 1..Len(reqs) : tasks[id].pc # "none" /\ reqs[id].name = name

\* the statistics values the loads for the named project have parsed so far
ParsedFor(name) == {q.content : q \in {x \in parsed : x.name = name}} \ {"corrupt"}

(***************************************************************************)
(* C34: whenever Metrics(name) is present in the ResponseCache and no load *)
(* for name is in flight, the cached payload is the one derived from the   *)
(* statistics currently stored in the table for name, even when several    *)
(* loads for name ran concurrently and parsed different data.              *)
(***************************************************************************)
C34_CachedMatchesTable ==
  \A name \in ReqNames :
    (ProjectMetrics(name) \in DOMAIN cache /\ ~LoadInFlight(name)) =>
       /\ FindProject(table, name) # 0
       /\ cache[ProjectMetrics(name)] =
            ProjectInfo(name, table[FindProject(table, name)].stats,
                        table[FindProject(table, name)].ws)

\* C34 as amended: a cached Metrics(name) payload names the project, carries
\* the table's workflow state and the statistics some load for name parsed, and
\* the table holds statistics for name; the two agree when all loads for name
\* parsed the same data.  When loads parsed different data the payload is that
\* of the load that completed last and the table that of the load that stored
\* last, and these can differ until the entry is invalidated.
C34_CachedFromSomeLoad ==
  \A name \in ReqNames :
    ProjectMetrics(name) \in DOMAIN cache =>
       /\ FindProject(table, name) # 0
       /\ table[FindProject(table, name)].stats \in ParsedFor(name)
       /\ cache[ProjectMetrics(name)].summary \in ParsedFor(name)
       /\ cache[ProjectMetrics(name)].project_name = name
       /\ cache[ProjectMetrics(name)].current_workflow_state =
            table[FindProject(table, name)].ws
       /\ Cardinality(ParsedFor(name)) = 1 =>
            cache[ProjectMetrics(name)].summary = table[FindProject(table, name)].stats

\* two loads parsed different data; with no load running any more the cached
\* payload carries other statistics than the table
C34_Witness ==
  \E name \in ReqNames :
    /\ ProjectMetrics(name) \in DOMAIN cache
    /\ ~LoadInFlight(name)
    /\ Cardinality(ParsedFor(name)) = 2
    /\ cache[ProjectMetrics(name)].summary # table[FindProject(table, name)].stats

\* the root paths of the records of a list
PathSet(s) == {s[k].path : k \in 1..Len(s)}

\* C35: records with distinct root paths are kept apart in the sharded cache:
\* saving a list in which two records share a name, or have different names
\* that sanitize to the same file name, and then loading it returns one record
\* for each saved root path (stated for saves in which no file operation failed).
C35_OneRecordPerRootPath ==
  (SaveFinishedOk /\ ~ioFailed /\ loaded # NoResult) =>
     /\ loaded.tag = "ok"
     /\ Len(loaded.v) = Len(arg)
     /\ PathSet(loaded.v) = PathSet(arg)

\* the project names a cache file lists (none when it is absent or unreadable)
ListedBy(file) == IF file.st = "full" THEN NameSet(file.v) ELSE {}

\* a get_projects, remove_from_cache or refresh_project call returns Ok in this step
CallReturnsOk ==
  /\ pc' = "idle"
  /\ pc # "idle" \/ nops' # nops
  /\ ret'.tag = "ok"

\* snapshot and index listed the same names when the call that returns began
StartedInSync ==
  IF op' \in {"remove", "refresh"}
  THEN NameSet(arg'.old) = ListedBy(snap)
  ELSE op' = "cached" => ListedBy(index) = ListedBy(snap)

(***************************************************************************)
(* C36: after any sequence of successful get_projects, remove_from_cache   *)
(* and refresh_project calls, the snapshot file and the sharded index list *)
(* the same set of project names (stated call by call: a successful call   *)
(* that starts with both listing the same names ends that way).            *)
(***************************************************************************)
C36_SnapshotAndIndexAgree ==
  [][(CallReturnsOk /\ StartedInSync) => ListedBy(index') = ListedBy(snap')]_vars

\* C36 as amended: a successful get_projects that scanned or migrated leaves
\* the snapshot and the index listing the same names, and one served from the
\* cache changes neither; refresh_project keeps the index's names and
\* remove_from_cache takes the name out of the index, and neither of them writes
\* the snapshot, which goes on listing a removed project.
C36_RemoveLeavesSnapshot ==
  /\ [][(CallReturnsOk /\ op' \in {"scan", "migrate"}) =>
          /\ index'.st = "full" /\ snap'.st = "full"
          /\ ListedBy(index') = ListedBy(snap')]_vars
  /\ [][(CallReturnsOk /\ op' = "cached") => UNCHANGED <<index, recs, snap>>]_vars
  /\ [][op' \in {"remove", "refresh"} => snap' = snap]_vars
  /\ [][(CallReturnsOk /\ op' = "refresh") =>
          ListedBy(index') = NameSet(arg'.old)]_vars
  /\ [][(CallReturnsOk /\ op' = "remove") =>
          ListedBy(index') = NameSet(arg'.old) \ {arg'.name}]_vars

\* a project was removed from a cache whose snapshot and index agreed: the
\* index no longer lists it, the snapshot still does
C36_Witness ==
  /\ pc = "idle"
  /\ op = "remove"
  /\ ret.tag = "ok"
  /\ ret.v = TRUE
  /\ NameSet(arg.old) = ListedBy(snap)
  /\ arg.name \in ListedBy(snap)
  /\ arg.name \notin ListedBy(index)

\* C37: for an unchanged filesystem, each project's workflow_state as returned
\* by get_projects(false), and hence as listed by GetProjects, is the same
\* whether the records come from a fresh scan, from the snapshot cache or from
\* the sharded cache: it is what load_state reads in the project's directory.
C37_SameWorkflowStateFromAllSources ==
  (pc = "idle" /\ op \in {"scan", "cached", "migrate"} /\ ret.tag = "ok") =>
     \A k \in 1..Len(ret.v) : ret.v[k].ws = ScanRecord(ret.v[k].path).ws

\* the positions of the configured roots whose walk reaches the marker of d
RootsReaching(d) ==
  {k \in 1..Len(walk.roots) :
     /\ Len(walk.roots[k]) <= Len(d)
     /\ SubSeq(d, 1, Len(walk.roots[k])) = walk.roots[k]
     /\ Len(d) + 1 - Len(walk.roots[k]) <= walk.max_depth
     /\ ~ExcludedOnPath(SubSeq(Append(d, Marker), Len(walk.roots[k]), Len(d) + 1),
                        walk.exclusions)}

(***************************************************************************)
(* C38: discover_projects never returns two records with the same root     *)
(* path, including when the configured root directories overlap (one root  *)
(* inside another, or the same root listed twice).                         *)
(***************************************************************************)
C38_NoDuplicateRootPaths ==
  walk.pc = "done" => DistinctPaths(walk.projects)

\* C38 as amended: discover_projects returns, for every project directory, one
\* record for each configured root whose walk reaches its marker: one record
\* when the roots are disjoint, several with the same root path when roots
\* overlap or one root is listed more than once.
C38_OneRecordPerRootAndMarker ==
  walk.pc = "done" =>
     /\ \A k \in 1..Len(walk.projects) :
          /\ Append(walk.projects[k].path, Marker) \in walk.dirs
          /\ walk.projects[k] = TreeRecord(walk.projects[k].path)
     /\ \A d \in walk.dirs :
          Cardinality({k \in 1..Len(walk.projects) : walk.projects[k].path = d})
            = IF Append(d, Marker) \in walk.dirs THEN Cardinality(RootsReaching(d)) ELSE 0
     /\ \A k \in 1..(Len(walk.projects) - 1) :
          walk.projects[k].la >= walk.projects[k + 1].la

\* one root lies inside the other and a project below both was returned twice
C38_Witness ==
  /\ walk.pc = "done"
  /\ Len(walk.roots) = 2
  /\ Len(walk.roots[1]) < Len(walk.roots[2])
  /\ \E j, k \in 1..Len(walk.projects) :
       j # k /\ walk.projects[j].path = walk.projects[k].path

(***************************************************************************)
(* C39: every GetProjects, GetProjectMetrics and GetAggregate request      *)
(* accepted into the queue eventually receives exactly one reply, as long  *)
(* as the worker task is running and each disk parse returns.              *)
(***************************************************************************)
C39_EveryRequestRepliedOnce ==
  /\ <>[](\A id \in 1..Len(reqs) : reqs[id].kind # "RefreshCache" => Replied(id))
  /\ [][\A id \in ReqIds : replies[id].tag # "none" => replies'[id] = replies[id]]_vars
  /\ [](\A id \in ReqIds : Replied(id) => id <= handled /\ reqs[id].kind # "RefreshCache")

\* a request of each kind was answered, the metrics one after its load read the
\* files, and one of the answers is an error
C39_Witness ==
  /\ handled = 3
  /\ {reqs[id].kind : id \in 1..3} = {"GetProjects", "GetProjectMetrics", "GetAllProjects"}
  /\ \A id \in 1..3 : Replied(id)
  /\ \E id \in 1..3 :
       /\ [who |-> "task", what |-> "disk_read", req |-> id] \in access
       /\ replies[id].tag = "err"

\* C40: once calls to CacheManager::queue_save stop arriving, the snapshot
\* file eventually contains the most recently queued project list (stated for
\* behaviours in which no save_cache call of the worker failed).
C40_NewestListSaved ==
  <>[]((mlog.queued # <<>> /\ Len(mlog.written) = Len(mlog.saves)) =>
          snap = Full(mlog.queued[Len(mlog.queued)]))

=============================================================================
